---- MODULE Spec2Model ----
(***************************************************************************)
(* openapi-enforcer-lambda: the request/response adapter (initialize,      *)
(* sendValidResponse, sendErrorResponse) and the controller dispatcher     *)
(* (enforcerLambda.handler / enforcerLambda.route).                        *)
(*                                                                         *)
(* One configured instance (openapi, options, handler or controllers) is   *)
(* built in Init; every invocation of its LambdaHandler runs in a slot of  *)
(* inv.  The contract engine (openapi-enforcer) is an external             *)
(* collaborator: EngineRequest and EngineResponse stand for its            *)
(* request() and its bound response() function.                            *)
(*                                                                         *)
(* Further specifications over the same variables cover the parameter-map  *)
(* functions (SpecParams), the body decoding of initialize (SpecBody), the *)
(* cookies of the Response Collector (SpecCookies), the handle* options    *)
(* (SpecOptions), interleaved invocations (SpecConcurrent), the valid       *)
(* result (SpecCollector), the test invoker (SpecInvoker) and the          *)
(* development server of app/server.ts (SpecLifecycle, SpecRequests).      *)
(***************************************************************************)
EXTENDS Integers, Sequences, FiniteSets, TLC

VARIABLES
    given,          \* the options argument as the caller wrote it
    options,        \* the Options object after enforcerLambda's defaulting
    openapi,        \* the openapi argument: a loaded document or a promise of one
    mode,           \* "handler" (enforcerLambda.handler) or "route" (enforcerLambda.route)
    controllers,    \* the RouteControllerMap given to route()
    operationsMap,  \* Map<operation, OperationsMapData> of the configured instance
    inv,            \* the invocations of the LambdaHandler, one record per slot
    params,         \* a call of the parameter-map functions or of test(): its
                    \* arguments and results
    server          \* the development server (Server of app/server.ts) and its requests

vars == <<given, options, openapi, mode, controllers, operationsMap, inv, params, server>>

----------------------------------------------------------------------------
(* Bounds of the model *)

\* the number of Response Collector calls a business handler makes in one invocation
MaxHandlerSteps == 2

\* the number of ancestors above an operation (path item, ..., document root)
MaxAncestors == 2

----------------------------------------------------------------------------
(* Values *)

\* invocation slots; Spec runs the invocations of slot 1 one after another
Slots == {1, 2}
ActiveSlots == {1}

\* a metadata key that a node of the document does not carry
Absent == "<absent>"

ControllerNames == {"accounts", "messages"}
OperationNames == {"getAccount", "deleteAccount"}

\* the operations of the document (operation handles): op1 is
\* GET /accounts/{accountId}, op2 is DELETE /accounts/{accountId}, op3 is
\* POST /accounts/{accountId}/messages
Operations == {"op1", "op2", "op3"}
NoOperation == "<none>"

\* messages carried by errors that the adapter did not create itself
Messages == {"boom", "secret"}

\* status codes a business handler sets; DeclaredCodes are those the
\* document declares a response for
StatusCodes == {200, 404}

\* values a business handler gives to res.send(): strings, and objects
\* (named here by what they hold)
StringBodies == {"hello"}
ObjectBodies == {"{id:123,name:'Name'}", "{id:'abc'}", "{id:123}"}

BodyUnset == [type |-> "undefined", val |-> ""]
BodyValues ==
    {[type |-> "string", val |-> s] : s \in StringBodies} \cup
    {[type |-> "object", val |-> o] : o \in ObjectBodies}

\* JSON.stringify of the objects above
JSONStringify(o) ==
    CASE o = "{id:123,name:'Name'}" -> "{\"id\":123,\"name\":\"Name\"}"
      [] o = "{id:'abc'}" -> "{\"id\":\"abc\"}"
      [] o = "{id:123}" -> "{\"id\":123}"
      [] OTHER -> "null"

NoHeaders == [h \in {} |-> ""]

----------------------------------------------------------------------------
(* Errors *)

NoError == [class |-> "none", code |-> 0, rcode |-> "", message |-> ""]

\* new EnforcerStatusError(code, message)
EnforcerStatusError(code, message) ==
    [class |-> "EnforcerStatusError", code |-> code, rcode |-> "", message |-> message]

\* new EnforcerRouterError(code, message)
EnforcerRouterError(code, message) ==
    [class |-> "EnforcerRouterError", code |-> 0, rcode |-> code, message |-> message]

\* the TypeError of reading a property of null
TypeErrorOfNull(property) ==
    [class |-> "TypeError", code |-> 0, rcode |-> "",
     message |-> "Cannot read property '" \o property \o "' of null"]

\* an Error thrown by caller code
PlainError(message) ==
    [class |-> "Error", code |-> 0, rcode |-> "", message |-> message]

\* EnforcerStatusError.toString (the only toString sendErrorResponse uses)
StatusErrorToString(e) ==
    "StatusError " \o ToString(e.code) \o ": " \o e.message

\* Error.prototype.toString of a rejected load
ErrorToString(message) == "Error: " \o message

----------------------------------------------------------------------------
(* Parameter maps: mergeMultiValueParameters, splitMultiValueParameters and *)
(* the header and query views of initialize                                *)

\* the number of values in a multi-valued parameter
MaxItems == 2

ParamKeys == {"a", "b"}
ParamStrings == {"1", "2"}

\* the values of a MergedParameters map: string | string[] | undefined
StringValue(s) == [kind |-> "string", items |-> <<s>>]
ArrayValue(items) == [kind |-> "array", items |-> items]
UndefinedValue == [kind |-> "undefined", items |-> <<>>]

Arrays == UNION {[1..n -> ParamStrings] : n \in 0..MaxItems}

SingleValues == {StringValue(s) : s \in ParamStrings} \cup {UndefinedValue}
MultiValues == {ArrayValue(a) : a \in Arrays} \cup {UndefinedValue}
MergedValues == {StringValue("1")} \cup MultiValues

\* a JavaScript object is the sequence of its own properties in insertion
\* order; ObjectsOver(values) are the objects with keys of ParamKeys
ObjectsOver(values) ==
    {o \in UNION {[1..n -> [key : ParamKeys, value : values]] :
                        n \in 0..Cardinality(ParamKeys)} :
        \A j, k \in 1..Len(o) : j # k => o[j].key # o[k].key}

\* null, where the event carries no map
Null == <<[key |-> "<null>", value |-> UndefinedValue]>>

\* map ?? {}
OrEmpty(map) == IF map = Null THEN <<>> ELSE map

\* Object.keys(obj), as a set
Keys(obj) == {obj[k].key : k \in 1..Len(obj)}

\* obj[key]
Get(obj, key) ==
    IF key \in Keys(obj)
    THEN (CHOOSE e \in {obj[k] : k \in 1..Len(obj)} : e.key = key).value
    ELSE UndefinedValue

\* obj[key] = value
Set(obj, key, value) ==
    IF key \in Keys(obj)
    THEN [k \in 1..Len(obj) |->
            IF obj[k].key = key THEN [key |-> key, value |-> value] ELSE obj[k]]
    ELSE Append(obj, [key |-> key, value |-> value])

\* Object.keys(source).forEach(key => { merged[key] = source[key] }), from
\* the i-th key on
RECURSIVE CopyKeys(_, _, _)
CopyKeys(merged, source, i) ==
    IF i > Len(source) THEN merged
    ELSE CopyKeys(Set(merged, source[i].key, source[i].value), source, i + 1)

mergeMultiValueParameters_SinglesWin(singles, multis) ==
    CopyKeys(CopyKeys(<<>>, multis, 1), singles, 1)

mergeMultiValueParameters(singles, multis) ==
    CopyKeys(CopyKeys(<<>>, singles, 1), multis, 1)

splitMultiValueParameters_UnwrapSingleton(data) ==
    LET one == SelectSeq(data, LAMBDA e :
                    e.value.kind = "string" \/ (e.value.kind = "array" /\ Len(e.value.items) = 1))
    IN  [singles |-> [k \in 1..Len(one) |->
                        [key |-> one[k].key, value |-> StringValue(one[k].value.items[1])]],
         multis |-> SelectSeq(data, LAMBDA e :
                        e.value.kind = "array" /\ Len(e.value.items) # 1)]

\* a key goes to singles when typeof value === 'string', to multis when
\* Array.isArray(value), and to neither otherwise
splitMultiValueParameters(data) ==
    [singles |-> SelectSeq(data, LAMBDA e : e.value.kind = "string"),
     multis |-> SelectSeq(data, LAMBDA e : e.value.kind = "array")]

\* the header view of initialize
HeaderView(headers, multiValueHeaders) ==
    mergeMultiValueParameters(OrEmpty(headers), OrEmpty(multiValueHeaders))

\* qsParams[key] ?? default for every key of qsParams, written to view
RECURSIVE QueryKeys(_, _, _, _)
QueryKeys(view, qsParams, default, i) ==
    IF i > Len(qsParams) THEN view
    ELSE QueryKeys(Set(view, qsParams[i].key,
                       IF qsParams[i].value.kind = "undefined"
                       THEN default ELSE qsParams[i].value),
                   qsParams, default, i + 1)

\* [v] of the single value v
Wrap(value) ==
    IF value.kind = "string" THEN ArrayValue(value.items) ELSE value

\* the query view of initialize: query, qsMap and hasQs
QueryView(queryStringParameters, multiValueQueryStringParameters) ==
    LET singles == OrEmpty(queryStringParameters)
        multis == OrEmpty(multiValueQueryStringParameters)
        query1 == QueryKeys(<<>>, singles, StringValue(""), 1)
    IN  [query |-> QueryKeys(query1, multis, ArrayValue(<<"">>), 1),
         qsMap |-> QueryKeys([k \in 1..Len(query1) |->
                                [key |-> query1[k].key, value |-> Wrap(query1[k].value)]],
                             multis, ArrayValue(<<"">>), 1),
         hasQs |-> singles # <<>> \/ multis # <<>>]

\* the arguments of a call and, once made, what it returned
ParamsCall(singles, multis, data) ==
    [op |-> "none", singles |-> singles, multis |-> multis, data |-> data,
     merged |-> <<>>,
     split |-> [singles |-> <<>>, multis |-> <<>>],
     again |-> <<>>,
     headers |-> <<>>,
     view |-> [query |-> <<>>, qsMap |-> <<>>, hasQs |-> FALSE],
     path |-> ""]

NoParams == ParamsCall(<<>>, <<>>, <<>>)

----------------------------------------------------------------------------
(* The document and the contract engine (external) *)

\* the values a node of the document may hold under the controller key
ControllerValues == {Absent, ""} \cup ControllerNames

\* x-controller of the ancestors of an operation, nearest first; the last
\* one is the document root
AncestorChains == [1..MaxAncestors -> {Absent} \cup ControllerNames]

\* how the engine represents the missing parent of the root:
\* enforcerData.parent is null, or a parent record whose result is undefined
RootParents == {"null", "noResult"}

\* the chain operation, path item, ..., root of an operation
Chain(doc, operation) == <<doc.opController[operation]>> \o doc.ancestors

\* event.httpMethod.toLowerCase()
ToLowerCase(method) ==
    CASE method = "GET" -> "get"
      [] method = "DELETE" -> "delete"
      [] method = "PUT" -> "put"
      [] method = "POST" -> "post"
      [] OTHER -> method

\* method.toUpperCase()
ToUpperCase(method) ==
    CASE method = "get" -> "GET"
      [] method = "delete" -> "DELETE"
      [] method = "put" -> "PUT"
      [] method = "post" -> "POST"
      [] OTHER -> method

\* the events of the model: a method, a path, and whether the query string
\* carries foo=bar, a parameter the document does not declare
\* event.body: null, or the raw string
NoBody == [present |-> FALSE, raw |-> ""]
RawBody(raw) == [present |-> TRUE, raw |-> raw]

\* an event without headers and without a body
BareEvent(httpMethod, path, otherQuery) ==
    [httpMethod |-> httpMethod, path |-> path, otherQuery |-> otherQuery,
     headers |-> <<>>, multiValueHeaders |-> <<>>, body |-> NoBody]

Events ==
    {BareEvent(m, p, q) :
        m \in {"GET", "DELETE"},
        p \in {"/accounts/123", "/accounts/abc", "/foo"},
        q \in BOOLEAN}
    \cup {BareEvent("PUT", "/accounts/123", FALSE)}

NoEvent == BareEvent("GET", "/foo", FALSE)

\* raw bodies: a JSON text, a truncated JSON text, a form-urlencoded text
\* and a plain text
RawBodies == {"{\"name\":\"Bob\"}", "{\"name\":", "name=Bob", "hello"}

ContentTypes ==
    {"application/json", "application/x-www-form-urlencoded", "application/fake", "text/plain"}

\* the single-valued headers of an event: none, or a content type under
\* either spelling of the header name
EventHeaders ==
    {<<>>} \cup
    {<<[key |-> k, value |-> StringValue(c)]>> :
        k \in {"content-type", "Content-Type"}, c \in ContentTypes}

\* the multi-valued headers of an event: none, or a JSON content type
EventMultiValueHeaders ==
    {<<>>, <<[key |-> "content-type", value |-> ArrayValue(<<"application/json">>)]>>}

\* events that post to /accounts/{accountId}/messages, with and without a
\* body
BodyEvents ==
    {[BareEvent("POST", "/accounts/123/messages", FALSE) EXCEPT
            !.headers = h, !.multiValueHeaders = mh, !.body = b] :
        h \in EventHeaders, mh \in EventMultiValueHeaders,
        b \in {NoBody} \cup {RawBody(r) : r \in RawBodies}}

EngineOk(operation) ==
    [failed |-> FALSE, statusCode |-> 0, message |-> "", operation |-> operation]

EngineError(statusCode, message) ==
    [failed |-> TRUE, statusCode |-> statusCode, message |-> message,
     operation |-> NoOperation]

\* openapi.request({ method, path, headers, body }, requestOptions) for a
\* document that declares get and delete of /accounts/{accountId}, with a
\* numeric accountId and no query parameter, and post of
\* /accounts/{accountId}/messages with an optional body
EngineRequest(method, path, otherQuery, requestOptions) ==
    IF path = "/foo"
    THEN EngineError(404, "Path not found")
    ELSE IF path = "/accounts/123/messages"
    THEN IF method = "post" THEN EngineOk("op3")
         ELSE EngineError(405, "Method not allowed")
    ELSE IF method \notin {"get", "delete"}
    THEN EngineError(405, "Method not allowed")
    ELSE IF path = "/accounts/abc"
    THEN EngineError(400, "Invalid path parameter: Expected a number")
    ELSE IF otherQuery /\ requestOptions # "true"
    THEN EngineError(400, "Received unexpected parameter: foo")
    ELSE EngineOk(IF method = "get" THEN "op1" ELSE "op2")

\* req.response(code, body, headers): the message of the engine's error,
\* "" when the response conforms to the document
EngineResponse(operation, code, body) ==
    IF body.type = "object" /\ body.val = "{id:'abc'}"
    THEN "Expected a number. Received: \"abc\""
    ELSE IF body.type = "object" /\ body.val = "{id:123}"
    THEN "Missing required property: name"
    ELSE ""

\* what the engine does to the headers of a response it found valid: it
\* returns them as given, or with the content type of the matched response
\* added when the handler set none
ResponseNormalisations == {"asGiven", "contentType"}

\* response.headers of req.response(code, body, headers): the headers of the
\* engine's normalised response
EngineResponseHeaders(headers) ==
    IF openapi.doc.normalises = "contentType" /\ "content-type" \notin DOMAIN headers
    THEN [h \in DOMAIN headers \cup {"content-type"} |->
            IF h = "content-type" THEN "application/json" ELSE headers[h]]
    ELSE headers

----------------------------------------------------------------------------
(* enforcerLambda: option defaults *)

Undefined == "undefined"

\* the options argument as a caller may write it
\* enforcerLambda(openapi): no option is given
NoOptions ==
    [allowOtherQueryParameters |-> Undefined,
     bodyParser |-> Undefined,
     handleBadRequest |-> Undefined,
     handleBadResponse |-> Undefined,
     handleNotFound |-> Undefined,
     handleMethodNotAllowed |-> Undefined]

GivenOptions ==
    {[NoOptions EXCEPT !.allowOtherQueryParameters = a] : a \in {Undefined, "false", "true"}}

\* options.name ?? value
Default(given_value, value) ==
    IF given_value = Undefined THEN value ELSE given_value

enforcerLambdaOptions_AllowByDefault(o) ==
    [allowOtherQueryParameters |-> Default(o.allowOtherQueryParameters, "true"),
     bodyParser |-> o.bodyParser,
     handleBadRequest |-> Default(o.handleBadRequest, "true"),
     handleBadResponse |-> Default(o.handleBadResponse, "true"),
     handleNotFound |-> Default(o.handleNotFound, "true"),
     handleMethodNotAllowed |-> Default(o.handleMethodNotAllowed, "true"),
     xController |-> "x-controller",
     xOperation |-> "x-operation"]

enforcerLambdaOptions(o) ==
    [allowOtherQueryParameters |-> Default(o.allowOtherQueryParameters, "false"),
     bodyParser |-> o.bodyParser,
     handleBadRequest |-> Default(o.handleBadRequest, "true"),
     handleBadResponse |-> Default(o.handleBadResponse, "true"),
     handleNotFound |-> Default(o.handleNotFound, "true"),
     handleMethodNotAllowed |-> Default(o.handleMethodNotAllowed, "true"),
     xController |-> "x-controller",
     xOperation |-> "x-operation"]

\* requestOptions of initialize
RequestOptions(opts) ==
    IF opts.allowOtherQueryParameters # Undefined
    THEN opts.allowOtherQueryParameters ELSE "<omitted>"

----------------------------------------------------------------------------
(* Completions of a call: a returned value or a thrown error *)

NoRequest == [operation |-> NoOperation, method |-> "", path |-> ""]

NoResult ==
    [statusCode |-> 0, headers |-> NoHeaders, isBase64Encoded |-> FALSE,
     multiValueHeaders |-> NoHeaders, body |-> ""]

\* initialize has not completed
InitPending == [type |-> "none", req |-> NoRequest, error |-> NoError]
InitReturn(req) == [type |-> "return", req |-> req, error |-> NoError]
InitThrow(e) == [type |-> "throw", req |-> NoRequest, error |-> e]

Return(result) == [type |-> "return", value |-> result, error |-> NoError]
Throw(e) == [type |-> "throw", value |-> NoResult, error |-> e]

----------------------------------------------------------------------------
(* initialize *)

\* the ResponseResult object that initialize creates for the invocation
NewResponseResult ==
    [statusCode |-> 200, headers |-> NoHeaders, isBase64Encoded |-> FALSE,
     multiValueHeaders |-> NoHeaders, body |-> BodyUnset]

\* await openapi, when openapi is a Promise that rejects
initializeLoadFailure(reason) ==
    InitThrow(EnforcerStatusError(500, ErrorToString(reason)))

\* rxContentType.test(key)
IsContentTypeKey(key) == key \in {"content-type", "Content-Type"}

\* getContentTypeFromHeaders(headers): the value under the first key that
\* is a content-type key, Undefined when there is none
getContentTypeFromHeaders(headers) ==
    LET found == SelectSeq(headers, LAMBDA e : IsContentTypeKey(e.key))
    IN  IF found = <<>> \/ found[1].value.items = <<>>
        THEN Undefined
        ELSE found[1].value.items[1]

\* JSON.parse(raw): the value, or a SyntaxError
JSONParse(raw) ==
    CASE raw = "{\"name\":\"Bob\"}" -> [ok |-> TRUE, value |-> "{name:'Bob'}"]
      [] OTHER -> [ok |-> FALSE, value |-> ""]

\* querystring.parse(raw): it has a value for every string
QuerystringParse(raw) ==
    CASE raw = "name=Bob" -> "{name:'Bob'}"
      [] raw = "hello" -> "{hello:''}"
      [] OTHER -> "{'" \o raw \o "':''}"

\* the bodyParser functions a caller configures: one that returns an
\* object for every body and one that throws
BodyParsers == {"parse", "reject"}

\* options.bodyParser(contentType, raw)
CallBodyParser(parser, contentType, raw) ==
    IF parser = "reject"
    THEN [ok |-> FALSE, value |-> "Cannot parse " \o contentType]
    ELSE [ok |-> TRUE, value |-> "{parsed:'" \o raw \o "'}"]

Decoded(body) == [threw |-> FALSE, error |-> NoError, body |-> body]
DecodeThrew(e) == [threw |-> TRUE, error |-> e, body |-> BodyUnset]

decodeBody_PassRaw(event, opts) ==
    IF ~event.body.present
    THEN Decoded(BodyUnset)
    ELSE LET contentType == getContentTypeFromHeaders(event.headers)
         IN  IF contentType = "application/json" /\ JSONParse(event.body.raw).ok
             THEN Decoded([type |-> "object", val |-> JSONParse(event.body.raw).value])
             ELSE IF contentType = "application/x-www-form-urlencoded"
             THEN Decoded([type |-> "object", val |-> QuerystringParse(event.body.raw)])
             ELSE Decoded([type |-> "string", val |-> event.body.raw])

\* the block "add json and form-urlencoded body parsers" of initialize: the
\* body variable after it, or the error it threw
decodeBody(event, opts) ==
    IF ~event.body.present
    THEN Decoded(BodyUnset)
    ELSE LET contentType == getContentTypeFromHeaders(event.headers)
         IN  IF contentType = "application/json"
             THEN IF JSONParse(event.body.raw).ok
                  THEN Decoded([type |-> "object", val |-> JSONParse(event.body.raw).value])
                  ELSE DecodeThrew(EnforcerStatusError(400, "Invalid JSON body"))
             ELSE IF contentType = "application/x-www-form-urlencoded"
             THEN Decoded([type |-> "object", val |-> QuerystringParse(event.body.raw)])
             ELSE IF opts.bodyParser # Undefined
             THEN LET parsed == CallBodyParser(opts.bodyParser,
                                    IF contentType = Undefined THEN "" ELSE contentType,
                                    event.body.raw)
                  IN  IF parsed.ok
                      THEN Decoded([type |-> "object", val |-> parsed.value])
                      ELSE DecodeThrew(EnforcerStatusError(400, parsed.value))
             ELSE Decoded(BodyUnset)

initializeRequest_IgnoreEngineError(event, opts) ==
    LET method == ToLowerCase(event.httpMethod)
        r == EngineRequest(method, event.path, event.otherQuery, RequestOptions(opts))
    IN  InitReturn([operation |-> IF r.failed THEN "op1" ELSE r.operation,
                    method |-> method, path |-> event.path])

\* initialize from the decoding of the body on: the call of the engine's
\* request() and the req object built from what it returns
initializeRequest(event, opts) ==
    LET method == ToLowerCase(event.httpMethod)
        decoded == decodeBody(event, opts)
        r == EngineRequest(method, event.path, event.otherQuery, RequestOptions(opts))
    IN  IF decoded.threw
        THEN InitThrow(decoded.error)
        ELSE IF r.failed
        THEN InitThrow(EnforcerStatusError(r.statusCode, r.message))
        ELSE InitReturn([operation |-> r.operation, method |-> method,
                         path |-> event.path])

----------------------------------------------------------------------------
(* The Response Collector: res.cookie and res.clearCookie *)

\* the number of cookie and clearCookie calls a business handler makes
MaxCookieCalls == 3

CookieNames == {"a", "b", "a=b"}
CookieValues == {"1", "a b"}

\* encodeURIComponent(value), the default of options.encode
EncodeURIComponent(value) ==
    CASE value = "a b" -> "a%20b"
      [] OTHER -> value

RECURSIVE Join(_, _)
\* array.join(separator) of an array of strings
Join(strings, separator) ==
    IF strings = <<>> THEN ""
    ELSE IF Len(strings) = 1 THEN strings[1]
    ELSE strings[1] \o separator \o Join(Tail(strings), separator)

\* the queryString of initialize: '?' and, for each key of qsMap, its
\* encoded values joined by '&', the keys' strings joined by '&' again
QueryString(qsMap, hasQs) ==
    IF hasQs
    THEN "?" \o Join([k \in 1..Len(qsMap) |->
                        Join([n \in 1..Len(qsMap[k].value.items) |->
                                EncodeURIComponent(qsMap[k].value.items[n])], "&")],
                     "&")
    ELSE ""

\* the path of the request given to the engine: event.path + queryString
EnginePath(path, view) == path \o QueryString(view.qsMap, view.hasQs)

\* CookieOptions: none given, and one that sets path, maxAge and secure
NoCookieOptions ==
    [path |-> Undefined, domain |-> Undefined, maxAge |-> -1, secure |-> FALSE,
     sameSite |-> Undefined]
CookieOptionSets ==
    {NoCookieOptions,
     [NoCookieOptions EXCEPT !.path = "/app", !.maxAge = 1500, !.secure = TRUE]}

\* Math.round(maxAge / 1000), for a maxAge that is not negative
RoundSeconds(maxAge) == (maxAge + 500) \div 1000

\* the string that res.cookie pushes (options.expires is not given)
CookieString(name, value, o) ==
    name \o ":" \o EncodeURIComponent(value) \o
    "; path=" \o (IF o.path # Undefined THEN o.path ELSE "/") \o
    (IF o.domain # Undefined THEN "; domain=" \o o.domain ELSE "") \o
    (IF o.maxAge # -1 THEN "; max-age=" \o ToString(RoundSeconds(o.maxAge)) ELSE "") \o
    (IF o.secure THEN "; secure" ELSE "") \o
    (IF o.sameSite # Undefined THEN "; samesite=" \o o.sameSite ELSE "")

\* result.multiValueHeaders['set-cookie'], <<>> when it is undefined
SetCookie(result) ==
    IF "set-cookie" \in DOMAIN result.multiValueHeaders
    THEN result.multiValueHeaders["set-cookie"]
    ELSE <<>>

\* result.multiValueHeaders[header] = list
SetMultiValueHeader(result, header, list) ==
    [result EXCEPT !.multiValueHeaders =
        [h \in DOMAIN result.multiValueHeaders \cup {header} |->
            IF h = header THEN list ELSE result.multiValueHeaders[h]]]

\* s.startsWith(prefix)
StartsWith(s, prefix) ==
    Len(s) >= Len(prefix) /\ SubSeq(s, 1, Len(prefix)) = prefix

\* list.findIndex(v => v.startsWith(prefix)), counted from 1; 0 when there
\* is none
FindIndex(list, prefix) ==
    LET found == {k \in 1..Len(list) : StartsWith(list[k], prefix)}
    IN  IF found = {} THEN 0
        ELSE CHOOSE k \in found : \A j \in found : k <= j

\* list.splice(index, 1)
Splice(list, index) ==
    SubSeq(list, 1, index - 1) \o SubSeq(list, index + 1, Len(list))

resCookie_ReplaceSameName(result, name, value, o) ==
    LET index == FindIndex(SetCookie(result), name \o ":")
    IN  SetMultiValueHeader(result, "set-cookie",
            Append(IF index = 0 THEN SetCookie(result)
                   ELSE Splice(SetCookie(result), index),
                   CookieString(name, value, o)))

\* res.cookie(name, value, options)
resCookie(result, name, value, o) ==
    SetMultiValueHeader(result, "set-cookie",
        Append(SetCookie(result), CookieString(name, value, o)))

\* res.clearCookie(name)
resClearCookie(result, name) ==
    IF "set-cookie" \in DOMAIN result.multiValueHeaders
    THEN LET index == FindIndex(SetCookie(result), name \o "=")
         IN  IF index # 0
             THEN SetMultiValueHeader(result, "set-cookie", Splice(SetCookie(result), index))
             ELSE result
    ELSE result

\* no Response Collector call was made
NoCall == [op |-> "", name |-> "", value |-> "", options |-> NoCookieOptions]

----------------------------------------------------------------------------
(* sendErrorResponse and sendValidResponse *)

ContentTextPlain == [h \in {"content"} |-> "text/plain"]

InternalServerError == "Internal server error"

sendErrorResponse_EchoMessage(e) ==
    [statusCode |-> IF e.class = "EnforcerStatusError" THEN e.code ELSE 500,
     headers |-> ContentTextPlain,
     isBase64Encoded |-> FALSE,
     multiValueHeaders |-> NoHeaders,
     body |-> IF e.class = "EnforcerStatusError"
              THEN StatusErrorToString(e) ELSE e.message]

sendErrorResponse_GenericServerFault(e) ==
    [statusCode |-> IF e.class = "EnforcerStatusError" THEN e.code ELSE 500,
     headers |-> ContentTextPlain,
     isBase64Encoded |-> FALSE,
     multiValueHeaders |-> NoHeaders,
     body |-> IF e.class = "EnforcerStatusError" /\ e.code # 500
              THEN StatusErrorToString(e) ELSE InternalServerError]

sendErrorResponse(e) ==
    IF e.class = "EnforcerStatusError"
    THEN [statusCode |-> e.code,
          headers |-> ContentTextPlain,
          isBase64Encoded |-> FALSE,
          multiValueHeaders |-> NoHeaders,
          body |-> StatusErrorToString(e)]
    ELSE [statusCode |-> 500,
          headers |-> ContentTextPlain,
          isBase64Encoded |-> FALSE,
          multiValueHeaders |-> NoHeaders,
          body |-> InternalServerError]

\* the body of a valid response
ResultBody(body) ==
    IF body.type = "undefined" THEN ""
    ELSE IF body.type = "object" THEN JSONStringify(body.val)
    ELSE body.val

sendValidResponse_NoValidation(operation, result) ==
    Return([statusCode |-> result.statusCode,
            headers |-> result.headers,
            isBase64Encoded |-> FALSE,
            multiValueHeaders |-> result.multiValueHeaders,
            body |-> ResultBody(result.body)])

sendValidResponse_DefaultStatus(operation, result) ==
    LET error == EngineResponse(operation, result.statusCode, result.body)
    IN  IF error # ""
        THEN Throw(EnforcerStatusError(500, "Invalid response: " \o error))
        ELSE Return([statusCode |-> 200,
                     headers |-> EngineResponseHeaders(result.headers),
                     isBase64Encoded |-> FALSE,
                     multiValueHeaders |-> result.multiValueHeaders,
                     body |-> ResultBody(result.body)])

\* sendValidResponse(req.response, result); req.response is the engine's
\* response function bound to the matched operation. The headers of the
\* result are response.headers, those of the engine's normalised response
sendValidResponse(operation, result) ==
    LET error == EngineResponse(operation, result.statusCode, result.body)
    IN  IF error # ""
        THEN Throw(EnforcerStatusError(500, "Invalid response: " \o error))
        ELSE Return([statusCode |-> result.statusCode,
                     headers |-> EngineResponseHeaders(result.headers),
                     isBase64Encoded |-> FALSE,
                     multiValueHeaders |-> result.multiValueHeaders,
                     body |-> ResultBody(result.body)])

TryCatch_RethrowPlain(completion) ==
    IF completion.type = "throw" /\ completion.error.class # "Error"
    THEN Return(sendErrorResponse(completion.error))
    ELSE completion

\* try { ... } catch (e) { return sendErrorResponse(e, options) } of the
\* LambdaHandler
TryCatch(completion) ==
    IF completion.type = "throw"
    THEN Return(sendErrorResponse(completion.error))
    ELSE completion

----------------------------------------------------------------------------
(* enforcerLambda.route: the registration of an operation *)

\* { xOperation: '', xController: '', processed: false }
NewRegistration == [xOperation |-> "", xController |-> "", processed |-> FALSE]

\* operationsMap.get(operation) ?? { ... }
GetRegistration(map, operation) ==
    IF operation \in DOMAIN map THEN map[operation] ELSE NewRegistration

\* operationsMap.set(operation, registered)
SetRegistration(map, operation, registered) ==
    [o \in DOMAIN map \cup {operation} |->
        IF o = operation THEN registered ELSE map[o]]

\* operation[options.xOperation] ?? operation.operationId ?? ''
OperationName(doc, operation) ==
    IF doc.xOperation[operation] # Absent THEN doc.xOperation[operation]
    ELSE IF doc.operationId[operation] # Absent THEN doc.operationId[operation]
    ELSE ""

WalkFound(value) == [found |-> TRUE, xController |-> value, threw |-> FALSE]
WalkExhausted == [found |-> FALSE, xController |-> "", threw |-> FALSE]
WalkThrew == [found |-> FALSE, xController |-> "", threw |-> TRUE]

RECURSIVE WalkFrom_Farthest(_, _, _)
WalkFrom_Farthest(chain, i, rootParent) ==
    LET above == IF i = Len(chain) THEN WalkExhausted
                 ELSE WalkFrom_Farthest(chain, i + 1, rootParent)
    IN  IF above.found THEN above
        ELSE IF chain[i] # Absent THEN WalkFound(chain[i])
        ELSE IF i = Len(chain) /\ rootParent = "null" THEN WalkThrew
        ELSE above

\* the loop  while (node !== null) { if (xController in node) { ...; break }
\*                                   node = node.enforcerData.parent.result ?? null }
\* from the node at position i of the chain
RECURSIVE WalkFrom(_, _, _)
WalkFrom(chain, i, rootParent) ==
    IF chain[i] # Absent
    THEN WalkFound(chain[i])
    ELSE IF i = Len(chain)
    THEN IF rootParent = "null" THEN WalkThrew ELSE WalkExhausted
    ELSE WalkFrom(chain, i + 1, rootParent)

Walk_Farthest(chain, rootParent) == WalkFrom_Farthest(chain, 1, rootParent)

\* let node = operation; while (node !== null) { ... }
Walk(chain, rootParent) == WalkFrom(chain, 1, rootParent)

Register_MarkProcessed(map, doc, operation) ==
    LET registered == GetRegistration(map, operation)
        fresh == operation \notin DOMAIN map
    IN  IF registered.processed
        THEN [registered |-> registered, map |-> map, error |-> NoError,
              fresh |-> fresh, walked |-> FALSE]
        ELSE LET named == [registered EXCEPT !.xOperation = OperationName(doc, operation),
                                             !.processed = TRUE]
                 walk == Walk(Chain(doc, operation), doc.rootParent)
                 after == IF walk.found
                          THEN [named EXCEPT !.xController = walk.xController]
                          ELSE named
             IN  [registered |-> after,
                  map |-> SetRegistration(map, operation, after),
                  error |-> IF walk.threw THEN TypeErrorOfNull("result") ELSE NoError,
                  fresh |-> fresh, walked |-> TRUE]

Register_NoCache(map, doc, operation) ==
    LET named == [NewRegistration EXCEPT !.xOperation = OperationName(doc, operation)]
        walk == Walk(Chain(doc, operation), doc.rootParent)
        after == IF walk.found
                 THEN [named EXCEPT !.xController = walk.xController]
                 ELSE named
    IN  [registered |-> after,
         map |-> SetRegistration(map, operation, after),
         error |-> IF walk.threw THEN TypeErrorOfNull("result") ELSE NoError,
         fresh |-> TRUE, walked |-> TRUE]

\* the block "get the x-controller and x-operation for the operation":
\* the registration after it, the map after it, the error it threw, whether
\* it created the registration object (fresh) and whether it ran the walk
Register(map, doc, operation) ==
    LET registered == GetRegistration(map, operation)
        fresh == operation \notin DOMAIN map
    IN  IF registered.processed
        THEN [registered |-> registered, map |-> map, error |-> NoError,
              fresh |-> fresh, walked |-> FALSE]
        ELSE LET named == [registered EXCEPT !.xOperation = OperationName(doc, operation)]
                 walk == Walk(Chain(doc, operation), doc.rootParent)
                 after == IF walk.found
                          THEN [named EXCEPT !.xController = walk.xController]
                          ELSE named
             IN  [registered |-> after,
                  map |-> SetRegistration(map, operation, after),
                  error |-> IF walk.threw THEN TypeErrorOfNull("result") ELSE NoError,
                  fresh |-> fresh, walked |-> TRUE]

NoRouteMappingMessage(req, opts) ==
    "The OpenAPI document defines the \"" \o ToUpperCase(req.method) \o " " \o req.path \o
    "\" endpoint, but the endpoint has no route mapping. Ensure that the OpenAPI document defines both the \"" \o
    opts.xOperation \o "\" (or operationId) and \"" \o opts.xController \o "\" properties."

DispatchThrow(e) == [call |-> FALSE, error |-> e, controller |-> "", operation |-> ""]
DispatchCall(c, o) == [call |-> TRUE, error |-> NoError, controller |-> c, operation |-> o]

Dispatch_NoTableCheck(registered, table, req, opts) ==
    IF registered.xController = "" \/ registered.xOperation = ""
    THEN DispatchThrow(EnforcerRouterError("NO_ROUTE_MAPPING", NoRouteMappingMessage(req, opts)))
    ELSE DispatchCall(registered.xController, registered.xOperation)

\* the if / else if chain that throws a route error or calls the controller
Dispatch(registered, table, req, opts) ==
    IF registered.xController = "" \/ registered.xOperation = ""
    THEN DispatchThrow(EnforcerRouterError("NO_ROUTE_MAPPING", NoRouteMappingMessage(req, opts)))
    ELSE IF registered.xController \notin DOMAIN table
    THEN DispatchThrow(EnforcerRouterError("CONTROLLER_NOT_FOUND",
            "The mapped controller could not be found for the \"" \o registered.xController \o "\" controller."))
    ELSE IF registered.xOperation \notin table[registered.xController]
    THEN DispatchThrow(EnforcerRouterError("CONTROLLER_NOT_FOUND",
            "The mapped controller could not be found for the \"" \o registered.xOperation \o "\" operation."))
    ELSE DispatchCall(registered.xController, registered.xOperation)

----------------------------------------------------------------------------
(* app/server.ts: the development server *)

\* the number of start() and stop() calls made on one Server
MaxCalls == 4

\* the number of HTTP requests the server accepts
MaxRequests == 2

Connections == 1..MaxRequests

\* the port argument of the constructor; 0 asks the system for a free port
ConfiguredPorts == {0, 3000}

\* the ports the system assigns to a listener that asked for port 0
SystemPorts == {49152, 49153}

\* an http.ServerResponse nothing was written to, and the request it answers
NoExchange ==
    [pc |-> "none",             \* none, buffering, parsing, running, ended
     contentType |-> Undefined, \* headerData.single['content-type']
     body |-> NoBody,           \* event.body
     invoked |-> 0,             \* calls of the LambdaHandler for this request
     settled |-> "",            \* how the LambdaHandler's promise settled
     statusCode |-> 200,        \* res.statusCode
     written |-> <<>>,          \* the chunks given to res.write
     ended |-> FALSE]           \* res.end() was called

\* new Server(port, handler, options)
NewServer(port, hasBodyParser) ==
    [port |-> port,                 \* data.port
     listener |-> "null",           \* data.listener: null or the http.Server
     listening |-> FALSE,           \* the http.Server holds a bound socket
     bound |-> 0,                   \* the port of that socket, 0 when there is none
     onListening |-> 0,             \* start() promises waiting for 'listening'
     onClose |-> 0,                 \* stop() promises waiting for 'close'
     calls |-> 0,                   \* start() and stop() calls made
     last |-> [op |-> "", before |-> [listener |-> "null", listening |-> FALSE, bound |-> 0],
               after |-> [listener |-> "null", listening |-> FALSE, bound |-> 0],
               outcome |-> ""],     \* the last start() or stop() call
     hasBodyParser |-> hasBodyParser,   \* options?.bodyParser !== undefined
     exchanges |-> [c \in Connections |-> NoExchange]]

NoServer == NewServer(3000, FALSE)

\* what the port getter, start() and stop() read and write
Listener(s) == [listener |-> s.listener, listening |-> s.listening, bound |-> s.bound]

\* get port (): listener.address() is null while the http.Server is not
\* listening
port(s) ==
    IF s.listener = "null" THEN s.port
    ELSE IF s.listening THEN s.bound
    ELSE s.port

Called(s, op, after, outcome) ==
    [after EXCEPT !.calls = s.calls + 1,
                  !.last = [op |-> op, before |-> Listener(s), after |-> Listener(after),
                            outcome |-> outcome]]

start_Relisten(s, systemPort) ==
    Called(s, "start",
           [s EXCEPT !.listener = "server", !.listening = TRUE,
                     !.bound = IF s.port = 0 THEN systemPort ELSE s.port,
                     !.onListening = IF s.listener = "null" THEN @ + 1 ELSE @],
           IF s.listener = "null" THEN "pending" ELSE "rejected")

\* start(): listen binds the socket at once and calls back on 'listening'
start(s, systemPort) ==
    IF s.listener = "null"
    THEN Called(s, "start",
                [s EXCEPT !.listener = "server", !.listening = TRUE,
                          !.bound = IF s.port = 0 THEN systemPort ELSE s.port,
                          !.onListening = @ + 1],
                "pending")
    ELSE Called(s, "start", s, "resolved")

\* stop(): close releases the socket at once and calls back on 'close'
stop(s) ==
    IF s.listener = "null"
    THEN Called(s, "stop", s, "resolved")
    ELSE Called(s, "stop",
                [s EXCEPT !.listener = "null", !.listening = FALSE, !.bound = 0,
                          !.onClose = @ + 1],
                "pending")

\* the content types of the requests sent to the server
RequestContentTypes == {Undefined, "application/json", "application/fake"}

\* the chunks of a request body
Chunks == {"hello"}

\* what the LambdaHandler given to the server resolves with: a result with
\* a body, one without, and one with a header that setHeader refuses
LambdaResults ==
    {[statusCode |-> 200, invalidHeader |-> FALSE, hasBody |-> TRUE, body |-> "{\"id\":123}"],
     [statusCode |-> 204, invalidHeader |-> FALSE, hasBody |-> FALSE, body |-> ""],
     [statusCode |-> 200, invalidHeader |-> TRUE, hasBody |-> TRUE, body |-> "{\"id\":123}"]}

\* runLambda up to the call handler(event, context)
runLambda(x) == [x EXCEPT !.pc = "running", !.invoked = @ + 1]

\* the request listener given to http.createServer
requestListener(x, contentType, hasBodyParser) ==
    IF contentType \in {"application/json", "application/x-www-form-urlencoded", "text/plain"}
    THEN [x EXCEPT !.pc = "buffering", !.contentType = contentType, !.body = RawBody("")]
    ELSE IF contentType # Undefined /\ hasBodyParser
    THEN [x EXCEPT !.pc = "parsing", !.contentType = contentType]
    ELSE runLambda([x EXCEPT !.contentType = contentType])

onRejected_Unhandled(x) ==
    [x EXCEPT !.pc = "ended"]

\* the .catch callback of runLambda
onRejected(x) ==
    [x EXCEPT !.pc = "ended",
              !.statusCode = 500,
              !.written = Append(@, InternalServerError),
              !.ended = TRUE]

\* the .then callback of runLambda: send(res, result); an error thrown by
\* setHeader rejects the chained promise, which the .catch callback handles
onFulfilled(x, result) ==
    IF result.invalidHeader
    THEN onRejected([x EXCEPT !.statusCode = result.statusCode])
    ELSE [x EXCEPT !.pc = "ended",
                   !.statusCode = result.statusCode,
                   !.written = IF result.hasBody THEN Append(@, result.body) ELSE @,
                   !.ended = TRUE]

----------------------------------------------------------------------------
(* Configurations *)

\* the document of the tests: x-controller on the path item, x-operation on
\* the operations
DefaultDoc ==
    [opController |-> [o \in Operations |-> Absent],
     ancestors |-> [k \in 1..MaxAncestors |-> IF k = 1 THEN "accounts" ELSE Absent],
     xOperation |-> [o \in Operations |->
                        CASE o = "op1" -> "getAccount"
                          [] o = "op2" -> "deleteAccount"
                          [] OTHER -> "postMessage"],
     operationId |-> [o \in Operations |-> Absent],
     rootParent |-> "null",
     normalises |-> "asGiven"]

\* documents that differ in where the controller key is set
ChainDocs ==
    {[DefaultDoc EXCEPT !.opController["op1"] = c, !.ancestors = a, !.rootParent = r] :
        c \in ControllerValues, a \in AncestorChains, r \in RootParents}

\* documents that differ in how op1 is named
NameDocs ==
    {[DefaultDoc EXCEPT !.xOperation["op1"] = x, !.operationId["op1"] = n] :
        x \in {Absent, "", "getAccount"}, n \in {Absent, "deleteAccount"}}

Docs == ChainDocs \cup NameDocs

\* the openapi argument: a document, or a promise that fulfills with one or
\* rejects
LoadedOpenapi(doc) == [kind |-> "document", settles |-> "", reason |-> "", doc |-> doc]
PromisedOpenapi(doc) == [kind |-> "promise", settles |-> "fulfilled", reason |-> "", doc |-> doc]
FailedOpenapi(reason) == [kind |-> "promise", settles |-> "rejected", reason |-> reason, doc |-> DefaultDoc]

\* RouteControllerMap: the operations each controller defines
NoControllers == [c \in {} |-> {}]
ControllerMaps ==
    {NoControllers,
     [c \in {"accounts"} |-> {"getAccount"}],
     [c \in {"messages"} |-> {}],
     [c \in ControllerNames |-> IF c = "accounts" THEN OperationNames ELSE {"getAccount"}]}

\* what business handlers throw
HandlerErrors ==
    {PlainError(m) : m \in Messages} \cup {EnforcerStatusError(403, "Forbidden")}

----------------------------------------------------------------------------
(* Invocations *)

Pending == [state |-> "pending", value |-> NoResult]

NewInvocation(event) ==
    [pc |-> "idle",
     event |-> event,
     init |-> InitPending,          \* the completion of initialize
     req |-> NoRequest,             \* the req given to the business handler
     result |-> NewResponseResult,  \* the Response Collector's ResponseResult
     out |-> Pending,               \* the LambdaHandler's promise
     caught |-> NoError,            \* the error caught by the LambdaHandler's catch
     engineCalls |-> <<>>,          \* requestOptions of each engine request() call
     engineBodies |-> <<>>,         \* the body given to each engine request() call
     engine |-> EngineOk(NoOperation), \* what the engine's request() returned
     registered |-> NewRegistration, \* the registration route() resolved
     fresh |-> FALSE,               \* route() created the registration object
     walked |-> FALSE,              \* route() ran the ancestor walk
     called |-> <<>>,               \* the business functions called, in order
     steps |-> 0,                   \* Response Collector calls made by the handler
     statusSet |-> 0,               \* the code of the last res.status(code), 0 if none
     headersSet |-> NoHeaders,      \* the last value of each header of a res.set(header, value)
     sent |-> BodyUnset,            \* the data of the last res.send(data)
     trace |-> <<>>,                \* the engine and business calls made, in order
     returned |-> FALSE,            \* the business handler returned normally
     validations |-> <<>>,          \* the engine's message of each outbound validation
     lastCall |-> NoCall,           \* the last cookie or clearCookie call of the handler
     before |-> <<>>,               \* the set-cookie list before that call
     beforeNames |-> <<>>,          \* for each entry of before, the name it was appended under
     cookieNames |-> <<>>]          \* for each entry of the set-cookie list, the same

\* the rest of initialize once openapi is loaded
RunInitialize(s) ==
    LET decoded == decodeBody(s.event, options)
    IN  IF decoded.threw
        THEN [s EXCEPT !.pc = "awaitInitialize",
                       !.init = initializeRequest(s.event, options)]
        ELSE [s EXCEPT !.pc = "awaitInitialize",
                       !.init = initializeRequest(s.event, options),
                       !.engineCalls = Append(@, RequestOptions(options)),
                       !.trace = Append(@, "request"),
                       !.engineBodies = Append(@, decoded.body),
                       !.engine = EngineRequest(ToLowerCase(s.event.httpMethod), s.event.path,
                                                s.event.otherQuery, RequestOptions(options))]

Settle_ValidateOnThrow(s, completion) ==
    LET c == TryCatch(completion)
        unreturned == completion.type = "throw" /\ ~s.returned
    IN  [s EXCEPT !.pc = "done",
                  !.steps = 0,
                  !.statusSet = IF unreturned THEN 0 ELSE @,
                  !.headersSet = IF unreturned THEN NoHeaders ELSE @,
                  !.sent = IF unreturned THEN BodyUnset ELSE @,
                  !.result = IF unreturned THEN NewResponseResult ELSE @,
                  !.trace = IF unreturned THEN Append(@, "response") ELSE @,
                  !.validations = IF unreturned THEN Append(@, "") ELSE @,
                  !.caught = completion.error,
                  !.out = [state |-> IF c.type = "return" THEN "resolved" ELSE "rejected",
                           value |-> c.value]]

\* the LambdaHandler's async function settles with what its try block
\* completed with; the invocation's Response Collector is read only by
\* sendValidResponse, and is dropped when that was never reached
Settle(s, completion) ==
    LET c == TryCatch(completion)
    IN  [s EXCEPT !.pc = "done",
                  !.steps = 0,
                  !.statusSet = IF completion.type = "throw" /\ ~s.returned THEN 0 ELSE @,
                  !.headersSet = IF completion.type = "throw" /\ ~s.returned
                                 THEN NoHeaders ELSE @,
                  !.sent = IF completion.type = "throw" /\ ~s.returned THEN BodyUnset ELSE @,
                  !.result = IF completion.type = "throw" /\ ~s.returned
                             THEN NewResponseResult ELSE @,
                  !.caught = completion.error,
                  !.out = [state |-> IF c.type = "return" THEN "resolved" ELSE "rejected",
                           value |-> c.value]]

\* the LambdaHandler is called with an event
Invoke(i, event) ==
    /\ inv[i].pc \in {"idle", "done"}
    /\ inv' = [inv EXCEPT ![i] =
                IF openapi.kind = "promise"
                THEN [NewInvocation(event) EXCEPT !.pc = "awaitOpenapi"]
                ELSE RunInitialize(NewInvocation(event))]
    /\ UNCHANGED <<params, server, given, options, openapi, mode, controllers, operationsMap>>

\* initialize resumes after await openapi
OpenapiSettled(i) ==
    /\ inv[i].pc = "awaitOpenapi"
    /\ inv' = [inv EXCEPT ![i] =
                IF openapi.settles = "rejected"
                THEN [@ EXCEPT !.pc = "awaitInitialize",
                               !.init = initializeLoadFailure(openapi.reason)]
                ELSE RunInitialize(@)]
    /\ UNCHANGED <<params, server, given, options, openapi, mode, controllers, operationsMap>>

\* await initialize(...) throws: the catch block runs
InitializeThrew(i) ==
    /\ inv[i].pc = "awaitInitialize"
    /\ inv[i].init.type = "throw"
    /\ inv' = [inv EXCEPT ![i] = Settle(@, Throw(inv[i].init.error))]
    /\ UNCHANGED <<params, server, given, options, openapi, mode, controllers, operationsMap>>

\* enforcerLambda.handler: await handler(req, res)
CallHandler(i) ==
    /\ mode = "handler"
    /\ inv[i].pc = "awaitInitialize"
    /\ inv[i].init.type = "return"
    /\ inv' = [inv EXCEPT ![i] = [@ EXCEPT !.pc = "handler",
                                           !.req = inv[i].init.req,
                                           !.trace = Append(@, "handler"),
                                           !.called = Append(@, <<"", "handler">>)]]
    /\ UNCHANGED <<params, server, given, options, openapi, mode, controllers, operationsMap>>

\* enforcerLambda.route: resolve the registration, then throw a route error
\* or await controllers[xController][xOperation](req, res)
Route(i) ==
    /\ mode = "route"
    /\ inv[i].pc = "awaitInitialize"
    /\ inv[i].init.type = "return"
    /\ LET req == inv[i].init.req
           r == Register(operationsMap, openapi.doc, req.operation)
           d == Dispatch(r.registered, controllers, req, options)
       IN  /\ operationsMap' = r.map
           /\ inv' = [inv EXCEPT ![i] =
                IF r.error # NoError
                THEN Settle([@ EXCEPT !.req = req, !.registered = r.registered,
                                      !.fresh = r.fresh, !.walked = r.walked], Throw(r.error))
                ELSE IF ~d.call
                THEN Settle([@ EXCEPT !.req = req, !.registered = r.registered,
                                      !.fresh = r.fresh, !.walked = r.walked], Throw(d.error))
                ELSE [@ EXCEPT !.pc = "handler",
                               !.req = req,
                               !.registered = r.registered,
                               !.fresh = r.fresh,
                               !.walked = r.walked,
                               !.trace = Append(@, "handler"),
                               !.called = Append(@, <<d.controller, d.operation>>)]]
    /\ UNCHANGED <<params, server, given, options, openapi, mode, controllers>>

\* the res of an invocation closes over the ResponseResult that the same
\* initialize call created: one object for all invocations
Collect_Shared(invs, i, result) ==
    [k \in DOMAIN invs |-> [invs[k] EXCEPT !.result = result]]

\* the res of an invocation closes over the ResponseResult that the same
\* initialize call created (const result): a write of the handler of
\* invocation i reaches that object only
Collect(invs, i, result) ==
    [invs EXCEPT ![i].result = result]

\* the business handler calls res.status(code)
ResStatus(i, code) ==
    /\ inv[i].pc = "handler"
    /\ inv[i].steps < MaxHandlerSteps
    /\ inv' = Collect([inv EXCEPT ![i] = [@ EXCEPT !.steps = @ + 1, !.statusSet = code]],
                      i, [inv[i].result EXCEPT !.statusCode = code])
    /\ UNCHANGED <<params, server, given, options, openapi, mode, controllers, operationsMap>>

\* res.set(header, value): result.headers[header] = value
resSet(result, header, value) ==
    [result EXCEPT !.headers =
        [h \in DOMAIN result.headers \cup {header} |->
            IF h = header THEN value ELSE result.headers[h]]]

\* the business handler calls res.set(header, value)
ResSet(i, header, value) ==
    /\ inv[i].pc = "handler"
    /\ inv[i].steps < MaxHandlerSteps
    /\ LET s == inv[i]
       IN  inv' = Collect([inv EXCEPT ![i] =
                            [s EXCEPT !.steps = @ + 1,
                                      !.headersSet = [h \in DOMAIN s.headersSet \cup {header} |->
                                                        IF h = header THEN value
                                                        ELSE s.headersSet[h]]]],
                          i, resSet(s.result, header, value))
    /\ UNCHANGED <<params, server, given, options, openapi, mode, controllers, operationsMap>>

resSend_AlwaysWrites(result, arguments) ==
    [result EXCEPT !.body = IF Len(arguments) > 0 THEN arguments[1] ELSE BodyUnset]

\* res.send(data?): if (arguments.length > 0) result.body = data
resSend(result, arguments) ==
    IF Len(arguments) > 0 THEN [result EXCEPT !.body = arguments[1]] ELSE result

\* the business handler calls res.send()
ResSendNothing(i) ==
    /\ inv[i].pc = "handler"
    /\ inv[i].steps < MaxHandlerSteps
    /\ inv' = Collect([inv EXCEPT ![i] =
                        [@ EXCEPT !.steps = @ + 1,
                                  !.lastCall = [op |-> "send", name |-> "", value |-> "",
                                                options |-> NoCookieOptions]]],
                      i, resSend(inv[i].result, <<>>))
    /\ UNCHANGED <<params, server, given, options, openapi, mode, controllers, operationsMap>>

\* the business handler calls res.send(data)
ResSend(i, data) ==
    /\ inv[i].pc = "handler"
    /\ inv[i].steps < MaxHandlerSteps
    /\ inv' = Collect([inv EXCEPT ![i] = [@ EXCEPT !.steps = @ + 1, !.sent = data]],
                      i, resSend(inv[i].result, <<data>>))
    /\ UNCHANGED <<params, server, given, options, openapi, mode, controllers, operationsMap>>

\* the business handler calls res.cookie(name, value, options)
ResCookie(i, name, value, o) ==
    /\ inv[i].pc = "handler"
    /\ inv[i].steps < MaxCookieCalls
    /\ LET s == inv[i]
       IN  inv' = Collect([inv EXCEPT ![i] =
                [s EXCEPT !.steps = @ + 1,
                          !.lastCall = [op |-> "cookie", name |-> name, value |-> value,
                                        options |-> o],
                          !.before = SetCookie(s.result),
                          !.beforeNames = s.cookieNames,
                          !.cookieNames = Append(@, name)]],
                i, resCookie(s.result, name, value, o))
    /\ UNCHANGED <<params, server, given, options, openapi, mode, controllers, operationsMap>>

\* the business handler calls res.clearCookie(name)
ResClearCookie(i, name) ==
    /\ inv[i].pc = "handler"
    /\ inv[i].steps < MaxCookieCalls
    /\ LET s == inv[i]
           index == IF "set-cookie" \in DOMAIN s.result.multiValueHeaders
                    THEN FindIndex(SetCookie(s.result), name \o "=") ELSE 0
       IN  inv' = Collect([inv EXCEPT ![i] =
                [s EXCEPT !.steps = @ + 1,
                          !.lastCall = [op |-> "clearCookie", name |-> name, value |-> "",
                                        options |-> NoCookieOptions],
                          !.before = SetCookie(s.result),
                          !.beforeNames = s.cookieNames,
                          !.cookieNames = IF index # 0 THEN Splice(@, index) ELSE @]],
                i, resClearCookie(s.result, name))
    /\ UNCHANGED <<params, server, given, options, openapi, mode, controllers, operationsMap>>

\* the business handler throws (its promise rejects)
HandlerThrows(i, e) ==
    /\ inv[i].pc = "handler"
    /\ inv' = [inv EXCEPT ![i] = Settle(@, Throw(e))]
    /\ UNCHANGED <<params, server, given, options, openapi, mode, controllers, operationsMap>>

\* the business handler returns: return sendValidResponse(req.response, result)
HandlerReturns(i) ==
    /\ inv[i].pc = "handler"
    /\ LET s == inv[i]
       IN  inv' = [inv EXCEPT ![i] =
                Settle([s EXCEPT !.returned = TRUE,
                                 !.trace = Append(@, "response"),
                                 !.validations = Append(@,
                                    EngineResponse(s.req.operation, s.result.statusCode, s.result.body))],
                       sendValidResponse(s.req.operation, s.result))]
    /\ UNCHANGED <<params, server, given, options, openapi, mode, controllers, operationsMap>>

----------------------------------------------------------------------------
(* Specification *)

\* enforcerLambda(openapi, options).handler(handler): the handler reads
\* neither the routing metadata nor a controller table
InitHandler ==
    /\ mode = "handler"
    /\ given \in GivenOptions
    /\ openapi \in {LoadedOpenapi(DefaultDoc), PromisedOpenapi(DefaultDoc)}
                      \cup {FailedOpenapi(m) : m \in Messages}
    /\ controllers = NoControllers

\* enforcerLambda(openapi, options).route(controllers), over the options and
\* the ways openapi is given
InitRouteOptions ==
    /\ mode = "route"
    /\ given \in GivenOptions
    /\ openapi \in {LoadedOpenapi(DefaultDoc), PromisedOpenapi(DefaultDoc)}
                      \cup {FailedOpenapi(m) : m \in Messages}
    /\ controllers \in ControllerMaps

\* enforcerLambda(openapi).route(controllers), over the documents
InitRouteDocs ==
    /\ mode = "route"
    /\ given = NoOptions
    /\ openapi \in {PromisedOpenapi(d) : d \in Docs}
    /\ controllers \in ControllerMaps

InitInstance ==
    /\ \/ InitHandler
       \/ InitRouteOptions
       \/ InitRouteDocs
    /\ options = enforcerLambdaOptions(given)
    /\ operationsMap = [o \in {} |-> NewRegistration]

Init ==
    /\ InitInstance
    /\ inv = [i \in Slots |-> NewInvocation(NoEvent)]
    /\ params = NoParams
    /\ server = NoServer

Step(i) ==
    \/ \E event \in Events : Invoke(i, event)
    \/ OpenapiSettled(i)
    \/ InitializeThrew(i)
    \/ CallHandler(i)
    \/ Route(i)
    \/ \E code \in StatusCodes : ResStatus(i, code)
    \/ \E data \in BodyValues : ResSend(i, data)
    \/ \E e \in HandlerErrors : HandlerThrows(i, e)
    \/ HandlerReturns(i)

Next == \E i \in ActiveSlots : Step(i)

Spec == Init /\ [][Next]_vars

----------------------------------------------------------------------------
(* Specification of the parameter-map functions *)

\* the configured instance of the tests: a loaded document, no options
InitDefaultInstance ==
    /\ mode = "handler"
    /\ given = NoOptions
    /\ openapi = LoadedOpenapi(DefaultDoc)
    /\ controllers = NoControllers
    /\ options = enforcerLambdaOptions(given)
    /\ operationsMap = [o \in {} |-> NewRegistration]
    /\ inv = [i \in Slots |-> NewInvocation(NoEvent)]

\* the single-valued and multi-valued maps of an event, or a
\* MergedParameters map
InitParams ==
    /\ InitDefaultInstance
    /\ server = NoServer
    /\ params \in
        {ParamsCall(s, m, <<>>) :
            s \in ObjectsOver(SingleValues) \cup {Null},
            m \in ObjectsOver(MultiValues) \cup {Null}}
        \cup {ParamsCall(<<>>, <<>>, d) : d \in ObjectsOver(MergedValues)}

\* mergeMultiValueParameters(singles, multis)
CallMerge ==
    /\ params.op = "none"
    /\ params.singles # Null /\ params.multis # Null
    /\ params' = [params EXCEPT !.op = "merge",
                    !.merged = mergeMultiValueParameters(params.singles, params.multis)]
    /\ UNCHANGED <<server, given, options, openapi, mode, controllers, operationsMap, inv>>

\* splitMultiValueParameters(data), and mergeMultiValueParameters of what it
\* returned
CallSplit ==
    /\ params.op = "none"
    /\ LET split == splitMultiValueParameters(params.data)
       IN  params' = [params EXCEPT !.op = "split",
                        !.split = split,
                        !.again = mergeMultiValueParameters(split.singles, split.multis)]
    /\ UNCHANGED <<server, given, options, openapi, mode, controllers, operationsMap, inv>>

\* initialize builds the query view and the header view of an event
BuildViews ==
    /\ params.op = "none"
    /\ params' = [params EXCEPT !.op = "views",
                    !.headers = HeaderView(params.singles, params.multis),
                    !.view = QueryView(params.singles, params.multis),
                    !.path = EnginePath("/accounts/123",
                                        QueryView(params.singles, params.multis))]
    /\ UNCHANGED <<server, given, options, openapi, mode, controllers, operationsMap, inv>>

NextParams ==
    \/ CallMerge
    \/ CallSplit
    \/ BuildViews

SpecParams == InitParams /\ [][NextParams]_vars

----------------------------------------------------------------------------
(* Specification of the body decoding: handler() over events with bodies *)

InitBody ==
    /\ mode = "handler"
    /\ given \in {[NoOptions EXCEPT !.bodyParser = b] : b \in {Undefined} \cup BodyParsers}
    /\ openapi = LoadedOpenapi(DefaultDoc)
    /\ controllers = NoControllers
    /\ options = enforcerLambdaOptions(given)
    /\ operationsMap = [o \in {} |-> NewRegistration]
    /\ inv = [i \in Slots |-> NewInvocation(NoEvent)]
    /\ params = NoParams
    /\ server = NoServer

StepBody(i) ==
    \/ \E event \in BodyEvents : Invoke(i, event)
    \/ InitializeThrew(i)
    \/ CallHandler(i)
    \/ \E data \in BodyValues : ResSend(i, data)
    \/ \E e \in HandlerErrors : HandlerThrows(i, e)
    \/ HandlerReturns(i)

NextBody == \E i \in ActiveSlots : StepBody(i)

SpecBody == InitBody /\ [][NextBody]_vars

----------------------------------------------------------------------------
(* Specification of the cookies of the Response Collector *)

InitCookies ==
    /\ InitDefaultInstance
    /\ params = NoParams
    /\ server = NoServer

StepCookies(i) ==
    \/ Invoke(i, BareEvent("GET", "/accounts/123", FALSE))
    \/ CallHandler(i)
    \/ \E name \in CookieNames, value \in CookieValues, o \in CookieOptionSets :
            ResCookie(i, name, value, o)
    \/ \E name \in CookieNames : ResClearCookie(i, name)
    \/ HandlerReturns(i)

NextCookies == \E i \in ActiveSlots : StepCookies(i)

SpecCookies == InitCookies /\ [][NextCookies]_vars

----------------------------------------------------------------------------
(* Specification of the development server: start() and stop() *)

InitLifecycle ==
    /\ InitDefaultInstance
    /\ params = NoParams
    /\ server \in {NewServer(p, FALSE) : p \in ConfiguredPorts}

\* server.start()
Start(systemPort) ==
    /\ server.calls < MaxCalls
    /\ server' = start(server, systemPort)
    /\ UNCHANGED <<params, given, options, openapi, mode, controllers, operationsMap, inv>>

\* server.stop()
Stop ==
    /\ server.calls < MaxCalls
    /\ server' = stop(server)
    /\ UNCHANGED <<params, given, options, openapi, mode, controllers, operationsMap, inv>>

\* the http.Server emits 'listening' (only while it still holds the
\* socket): the callbacks given to listen resolve their start() promises
ListeningEmitted ==
    /\ server.onListening > 0
    /\ server.listening
    /\ server' = [server EXCEPT !.onListening = 0]
    /\ UNCHANGED <<params, given, options, openapi, mode, controllers, operationsMap, inv>>

\* the http.Server emits 'close' (only while it holds no socket): the
\* callbacks given to close resolve their stop() promises
CloseEmitted ==
    /\ server.onClose > 0
    /\ ~server.listening
    /\ server' = [server EXCEPT !.onClose = 0]
    /\ UNCHANGED <<params, given, options, openapi, mode, controllers, operationsMap, inv>>

NextLifecycle ==
    \/ \E systemPort \in SystemPorts : Start(systemPort)
    \/ Stop
    \/ ListeningEmitted
    \/ CloseEmitted

SpecLifecycle == InitLifecycle /\ [][NextLifecycle]_vars

----------------------------------------------------------------------------
(* Specification of the development server: the requests of a started     *)
(* server                                                                  *)

\* a server constructed with or without options.bodyParser, after
\* await server.start()
InitRequests ==
    /\ InitDefaultInstance
    /\ params = NoParams
    /\ server \in {[start(NewServer(0, b), p) EXCEPT !.onListening = 0] :
                        b \in BOOLEAN, p \in SystemPorts}

\* the http.Server calls the request listener
Accept(c, contentType) ==
    /\ server.listening
    /\ server.exchanges[c].pc = "none"
    /\ server' = [server EXCEPT !.exchanges[c] =
                    requestListener(@, contentType, server.hasBodyParser)]
    /\ UNCHANGED <<params, given, options, openapi, mode, controllers, operationsMap, inv>>

\* req.on('data', ...)
Data(c, chunk) ==
    /\ server.exchanges[c].pc = "buffering"
    /\ server.exchanges[c].body.raw = ""
    /\ server' = [server EXCEPT !.exchanges[c].body.raw = @ \o chunk]
    /\ UNCHANGED <<params, given, options, openapi, mode, controllers, operationsMap, inv>>

\* req.on('end', ...)
End(c) ==
    /\ server.exchanges[c].pc = "buffering"
    /\ server' = [server EXCEPT !.exchanges[c] = runLambda(@)]
    /\ UNCHANGED <<params, given, options, openapi, mode, controllers, operationsMap, inv>>

\* the promise of options.bodyParser settles: both callbacks call runLambda
ParserSettles(c, fulfilled) ==
    /\ server.exchanges[c].pc = "parsing"
    /\ server' = [server EXCEPT !.exchanges[c] =
                    runLambda(IF fulfilled THEN [@ EXCEPT !.body = RawBody("parsed")] ELSE @)]
    /\ UNCHANGED <<params, given, options, openapi, mode, controllers, operationsMap, inv>>

\* the LambdaHandler's promise resolves with a result
HandlerResolves(c, result) ==
    /\ server.exchanges[c].pc = "running"
    /\ server' = [server EXCEPT !.exchanges[c] =
                    onFulfilled([@ EXCEPT !.settled = "resolved"], result)]
    /\ UNCHANGED <<params, given, options, openapi, mode, controllers, operationsMap, inv>>

\* the LambdaHandler's promise rejects
HandlerRejects(c) ==
    /\ server.exchanges[c].pc = "running"
    /\ server' = [server EXCEPT !.exchanges[c] =
                    onRejected([@ EXCEPT !.settled = "rejected"])]
    /\ UNCHANGED <<params, given, options, openapi, mode, controllers, operationsMap, inv>>

HandlerSettles(c) ==
    \/ \E result \in LambdaResults : HandlerResolves(c, result)
    \/ HandlerRejects(c)

NextRequests ==
    \E c \in Connections :
        \/ \E contentType \in RequestContentTypes : Accept(c, contentType)
        \/ \E chunk \in Chunks : Data(c, chunk)
        \/ End(c)
        \/ \E fulfilled \in BOOLEAN : ParserSettles(c, fulfilled)
        \/ HandlerSettles(c)

\* every request stream ends and every promise given to the server settles;
\* the callbacks of the server then run
FairRequests ==
    \A c \in Connections :
        /\ WF_vars(End(c))
        /\ WF_vars(\E fulfilled \in BOOLEAN : ParserSettles(c, fulfilled))
        /\ WF_vars(HandlerSettles(c))

SpecRequests == InitRequests /\ [][NextRequests]_vars /\ FairRequests

----------------------------------------------------------------------------
(* Specification of the handle* options: handler() with one of them given *)

\* the options argument with one of handleBadRequest, handleBadResponse,
\* handleNotFound, handleMethodNotAllowed given, or none
HandleOptions ==
    {[NoOptions EXCEPT !.handleBadRequest = v] : v \in {Undefined, "true", "false"}} \cup
    {[NoOptions EXCEPT !.handleBadResponse = v] : v \in {"true", "false"}} \cup
    {[NoOptions EXCEPT !.handleNotFound = v] : v \in {"true", "false"}} \cup
    {[NoOptions EXCEPT !.handleMethodNotAllowed = v] : v \in {"true", "false"}}

InitOptions ==
    /\ mode = "handler"
    /\ given \in HandleOptions
    /\ openapi = LoadedOpenapi(DefaultDoc)
    /\ controllers = NoControllers
    /\ options = enforcerLambdaOptions(given)
    /\ operationsMap = [o \in {} |-> NewRegistration]
    /\ inv = [i \in Slots |-> NewInvocation(NoEvent)]
    /\ params = NoParams
    /\ server = NoServer

StepOptions(i) ==
    \/ \E event \in Events : Invoke(i, event)
    \/ InitializeThrew(i)
    \/ CallHandler(i)
    \/ \E code \in StatusCodes : ResStatus(i, code)
    \/ \E data \in BodyValues : ResSend(i, data)
    \/ \E e \in HandlerErrors : HandlerThrows(i, e)
    \/ HandlerReturns(i)

NextOptions == \E i \in ActiveSlots : StepOptions(i)

SpecOptions == InitOptions /\ [][NextOptions]_vars

----------------------------------------------------------------------------
(* Specification of interleaved invocations: two invocations of the        *)
(* LambdaHandler of route() are in flight at once; each one runs between   *)
(* its await points without interruption                                    *)

\* documents that place the controller key on the root, on op1 itself, or
\* nowhere
ConcurrentDocs ==
    {DefaultDoc,
     [DefaultDoc EXCEPT !.opController["op1"] = "messages"],
     [DefaultDoc EXCEPT !.ancestors = [k \in 1..MaxAncestors |-> Absent]]}

AccountEvents ==
    {BareEvent("GET", "/accounts/123", FALSE), BareEvent("DELETE", "/accounts/123", FALSE)}

HeaderNames == {"location", "content-type"}
HeaderValues == {"/accounts/1", "text/plain"}

InitConcurrent ==
    /\ mode = "route"
    /\ given = NoOptions
    /\ openapi \in {PromisedOpenapi(d) : d \in ConcurrentDocs}
    /\ controllers = [c \in ControllerNames |->
                        IF c = "accounts" THEN OperationNames ELSE {"getAccount"}]
    /\ options = enforcerLambdaOptions(given)
    /\ operationsMap = [o \in {} |-> NewRegistration]
    /\ inv = [i \in Slots |-> NewInvocation(NoEvent)]
    /\ params = NoParams
    /\ server = NoServer

StepConcurrent(i) ==
    \/ \E event \in AccountEvents : Invoke(i, event)
    \/ OpenapiSettled(i)
    \/ Route(i)
    \/ ResStatus(i, 404)
    \/ ResSet(i, "location", "/accounts/1")
    \/ ResSend(i, [type |-> "string", val |-> "hello"])
    \/ ResCookie(i, "a", "1", NoCookieOptions)
    \/ HandlerThrows(i, PlainError("boom"))
    \/ HandlerReturns(i)

NextConcurrent == \E i \in Slots : StepConcurrent(i)

SpecConcurrent == InitConcurrent /\ [][NextConcurrent]_vars

----------------------------------------------------------------------------
(* Specification of the Response Collector and the valid result: handler() *)
(* over what the handler sets and over the engine's normalisation          *)

InitCollector ==
    /\ mode = "handler"
    /\ given = NoOptions
    /\ openapi \in {LoadedOpenapi([DefaultDoc EXCEPT !.normalises = n]) :
                        n \in ResponseNormalisations}
    /\ controllers = NoControllers
    /\ options = enforcerLambdaOptions(given)
    /\ operationsMap = [o \in {} |-> NewRegistration]
    /\ inv = [i \in Slots |-> NewInvocation(NoEvent)]
    /\ params = NoParams
    /\ server = NoServer

StepCollector(i) ==
    \/ \E event \in AccountEvents : Invoke(i, event)
    \/ CallHandler(i)
    \/ \E code \in StatusCodes : ResStatus(i, code)
    \/ \E header \in HeaderNames, value \in HeaderValues : ResSet(i, header, value)
    \/ \E data \in BodyValues : ResSend(i, data)
    \/ ResSendNothing(i)
    \/ ResCookie(i, "a", "1", NoCookieOptions)
    \/ HandlerReturns(i)

NextCollector == \E i \in ActiveSlots : StepCollector(i)

SpecCollector == InitCollector /\ [][NextCollector]_vars

----------------------------------------------------------------------------
(* Specification of the test invoker: test(handler, req) up to the event   *)
(* it hands to the handler                                                  *)

\* querystring.stringify of the objects of ObjectBodies
QuerystringStringify(o) ==
    CASE o = "{id:123,name:'Name'}" -> "id=123&name=Name"
      [] o = "{id:'abc'}" -> "id=abc"
      [] o = "{id:123}" -> "id=123"
      [] OTHER -> ""

\* TestRequest.headers: none, or a content type given as a string under
\* either spelling of the header name, or as an array
TestHeaders ==
    EventHeaders \cup
    {<<[key |-> "content-type", value |-> ArrayValue(<<c>>)]>> : c \in ContentTypes}

\* TestRequest.body: not given, a string or an object
BodyNull == [type |-> "null", val |-> ""]
TestBodies == {BodyNull} \cup BodyValues

\* TestRequest.method
TestMethods == {Undefined, "get", "post"}

NoTestEvent ==
    [httpMethod |-> "", headers |-> <<>>, multiValueHeaders |-> <<>>, body |-> BodyNull]

TestCall(method, headers, body) ==
    [op |-> "none", method |-> method, headers |-> headers, body |-> body,
     event |-> NoTestEvent, threw |-> FALSE]

\* the method, headers and body of the event that test builds; typeof body
\* is 'object' for the object bodies only, and an object body whose content
\* type is neither application/json nor application/x-www-form-urlencoded
\* is left as it is
testEvent(req) ==
    LET split == splitMultiValueParameters(req.headers)
        bodyIsObject == req.body.type = "object"
        contentType == getContentTypeFromHeaders(split.singles)
    IN  [httpMethod |-> IF req.method = Undefined THEN "GET" ELSE ToUpperCase(req.method),
         headers |-> IF bodyIsObject /\ contentType = Undefined
                     THEN Set(split.singles, "content-type", StringValue("application/json"))
                     ELSE split.singles,
         multiValueHeaders |-> split.multis,
         body |-> IF ~bodyIsObject THEN req.body
                  ELSE IF contentType \in {Undefined, "application/json"}
                  THEN [type |-> "string", val |-> JSONStringify(req.body.val)]
                  ELSE IF contentType = "application/x-www-form-urlencoded"
                  THEN [type |-> "string", val |-> QuerystringStringify(req.body.val)]
                  ELSE req.body]

InitInvoker ==
    /\ InitDefaultInstance
    /\ server = NoServer
    /\ params \in {TestCall(m, h, b) : m \in TestMethods, h \in TestHeaders, b \in TestBodies}

\* test(handler, req) builds the event; no statement before the call of the
\* handler throws
BuildEvent ==
    /\ params.op = "none"
    /\ params' = [params EXCEPT !.op = "test", !.event = testEvent(params)]
    /\ UNCHANGED <<server, given, options, openapi, mode, controllers, operationsMap, inv>>

NextInvoker == BuildEvent

SpecInvoker == InitInvoker /\ [][NextInvoker]_vars

----------------------------------------------------------------------------
(* Properties *)

Done(i) == inv[i].pc = "done"

\* the engine's request() was called and reported an error
EngineRejected(i) == inv[i].engineCalls # <<>> /\ inv[i].engine.failed

\* the engine's request() was called and accepted the request
EngineAccepted(i) == inv[i].engineCalls # <<>> /\ ~inv[i].engine.failed

\* the handler returned and the engine found the collected response valid
ResponseValid(i) == inv[i].returned /\ inv[i].validations = <<"">>

\* the handler returned and the engine found the collected response invalid
ResponseInvalid(i) ==
    inv[i].returned /\ Len(inv[i].validations) = 1 /\ inv[i].validations[1] # ""

\* route() resolved the names of the matched operation in this invocation
Routed(i) ==
    /\ mode = "route"
    /\ inv[i].pc \in {"handler", "done"}
    /\ inv[i].req.operation # NoOperation

\* the positions of the chain of the matched operation that carry the
\* controller key
Carriers(i) ==
    LET chain == Chain(openapi.doc, inv[i].req.operation)
    IN  {k \in 1..Len(chain) : chain[k] # Absent}

\* C1: when the engine's request() reports an error, no business function
\* is called and the result's statusCode is the engine error's statusCode.
C1_EngineErrorSkipsHandler ==
    \A i \in Slots :
        EngineRejected(i) =>
            /\ inv[i].called = <<>>
            /\ inv[i].pc \in {"awaitInitialize", "done"}
            /\ Done(i) =>
                /\ inv[i].out.state = "resolved"
                /\ inv[i].out.value.statusCode = inv[i].engine.statusCode

C1_Witness ==
    \E i \in Slots :
        /\ Done(i)
        /\ EngineRejected(i)
        /\ inv[i].event.path = "/accounts/abc"
        /\ inv[i].out.value.statusCode = 400
        /\ inv[i].called = <<>>

\* C2: when the engine accepts the request and the collected response
\* passes outbound validation, the business handler (for route(), the
\* resolved controller function) was called exactly once and the result's
\* statusCode is the code of the last res.status() call, 200 if there was
\* none.
C2_ValidResponseStatus ==
    \A i \in Slots :
        (Done(i) /\ EngineAccepted(i) /\ ResponseValid(i)) =>
            /\ Len(inv[i].called) = 1
            /\ mode = "route" =>
                inv[i].called[1] = <<inv[i].registered.xController, inv[i].registered.xOperation>>
            /\ inv[i].out.state = "resolved"
            /\ inv[i].out.value.statusCode =
                    IF inv[i].statusSet = 0 THEN 200 ELSE inv[i].statusSet

C2_Witness ==
    \E i \in Slots :
        /\ Done(i) /\ EngineAccepted(i) /\ ResponseValid(i)
        /\ mode = "route"
        /\ inv[i].statusSet = 404
        /\ inv[i].out.value.statusCode = 404
        /\ Len(inv[i].called) = 1

\* C3: when the business handler returns normally and the collected
\* response fails the engine's outbound validation, the result has
\* statusCode 500 and the handler has been called exactly once.
C3_InvalidResponseIs500 ==
    \A i \in Slots :
        (Done(i) /\ ResponseInvalid(i)) =>
            /\ inv[i].out.state = "resolved"
            /\ inv[i].out.value.statusCode = 500
            /\ Len(inv[i].called) = 1

C3_Witness ==
    \E i \in Slots :
        /\ Done(i) /\ ResponseInvalid(i)
        /\ inv[i].result.body = [type |-> "object", val |-> "{id:'abc'}"]
        /\ inv[i].out.value.statusCode = 500
        /\ Len(inv[i].called) = 1

\* C4: the LambdaHandler never rejects: whichever step fails, a finished
\* invocation has resolved to a result carrying a status code and a string
\* body.
C4_NeverRejects ==
    \A i \in Slots :
        /\ inv[i].out.state # "rejected"
        /\ Done(i) =>
            /\ inv[i].out.state = "resolved"
            /\ inv[i].out.value.statusCode \in 100..599
            /\ inv[i].out.value.body \in STRING

C4_Witness ==
    \E i \in Slots :
        /\ Done(i)
        /\ inv[i].caught = PlainError("boom")
        /\ inv[i].out.state = "resolved"

\* C5: an error caught at the outer boundary that is not an
\* EnforcerStatusError (an exception of the business handler, the route
\* errors NO_ROUTE_MAPPING and CONTROLLER_NOT_FOUND) gives statusCode 500
\* and the body 'Internal server error', whatever the error's message.
C5_OtherErrorsAreGeneric500 ==
    \A i \in Slots :
        (Done(i) /\ inv[i].caught.class \notin {"none", "EnforcerStatusError"}) =>
            /\ inv[i].out.value.statusCode = 500
            /\ inv[i].out.value.body = "Internal server error"

C5_Witness ==
    \E i \in Slots :
        /\ Done(i)
        /\ inv[i].caught.class = "EnforcerRouterError"
        /\ inv[i].caught.rcode = "CONTROLLER_NOT_FOUND"
        /\ inv[i].out.value.body = "Internal server error"

\* the engine failed to load: initialize threw at await openapi
LoadFailed(i) ==
    /\ openapi.kind = "promise" /\ openapi.settles = "rejected"
    /\ inv[i].init.type = "throw"

ConfiguredAllowOther ==
    IF given.allowOtherQueryParameters = Undefined
    THEN "false" ELSE given.allowOtherQueryParameters

\* an event whose only defect is the undeclared query parameter
OnlyOtherQuery(event) ==
    /\ event.otherQuery
    /\ event.httpMethod \in {"GET", "DELETE"}
    /\ event.path = "/accounts/123"

\* C7: every engine request() call gets the configured
\* allowOtherQueryParameters (false when not configured); a request with an
\* undeclared query parameter then gives 400 and no handler call unless the
\* option is true, and with the option true is accepted: a handler that
\* leaves the status at 200 and sends a valid response is called once and
\* gives 200.
C7_AllowOtherQueryParameters ==
    \A i \in Slots :
        /\ \A k \in 1..Len(inv[i].engineCalls) :
                inv[i].engineCalls[k] = ConfiguredAllowOther
        /\ (Done(i) /\ inv[i].engineCalls # <<>> /\ OnlyOtherQuery(inv[i].event)) =>
            IF ConfiguredAllowOther = "true"
            THEN /\ ~inv[i].engine.failed
                 /\ (ResponseValid(i) /\ inv[i].statusSet \in {0, 200}) =>
                        /\ inv[i].out.value.statusCode = 200
                        /\ Len(inv[i].called) = 1
            ELSE /\ inv[i].out.value.statusCode = 400
                 /\ inv[i].called = <<>>

C7_Witness ==
    \E i \in Slots :
        /\ Done(i)
        /\ OnlyOtherQuery(inv[i].event)
        /\ given.allowOtherQueryParameters = "true"
        /\ ResponseValid(i)
        /\ inv[i].out.value.statusCode = 200
        /\ Len(inv[i].called) = 1

\* C8: in route(), the controller name resolved for an operation is the
\* value of the controller key on the nearest node of the chain operation,
\* path item, ..., root that carries the key.
C8_NearestControllerWins ==
    \A i \in Slots :
        (Routed(i) /\ Carriers(i) # {}) =>
            LET chain == Chain(openapi.doc, inv[i].req.operation)
                nearest == CHOOSE k \in Carriers(i) : \A j \in Carriers(i) : k <= j
            IN  inv[i].registered.xController = chain[nearest]

C8_Witness ==
    \E i \in Slots :
        /\ Routed(i)
        /\ Cardinality(Carriers(i)) >= 2
        /\ inv[i].registered.xController = "messages"
        /\ openapi.doc.opController[inv[i].req.operation] = "messages"
        /\ openapi.doc.ancestors[1] = "accounts"

\* C9 as stated: in route(), when the resolved operation name is empty, or
\* no node of the operation's chain up to the root carries the controller
\* key, the invocation fails with the route error NO_ROUTE_MAPPING that
\* names the method and path and both metadata keys, and no controller
\* function is called.
C9_NoRouteMapping ==
    \A i \in Slots :
        (Routed(i) /\ Done(i) /\
            (OperationName(openapi.doc, inv[i].req.operation) = "" \/ Carriers(i) = {})) =>
            /\ inv[i].caught =
                    EnforcerRouterError("NO_ROUTE_MAPPING",
                                        NoRouteMappingMessage(inv[i].req, options))
            /\ inv[i].called = <<>>

\* the controller table has no function for the resolved names
NoControllerFunction(i) ==
    \/ inv[i].registered.xController \notin DOMAIN controllers
    \/ inv[i].registered.xOperation \notin controllers[inv[i].registered.xController]

\* C10: in route(), when both names resolve non-empty: if the table has no
\* entry for the controller name, or the controller none for the operation
\* name, the invocation fails with CONTROLLER_NOT_FOUND and no controller
\* function is called; otherwise controllers[xController][xOperation] is
\* called, and no other function.
C10_ControllerLookup ==
    \A i \in Slots :
        (Routed(i) /\ inv[i].registered.xController # ""
                   /\ inv[i].registered.xOperation # "") =>
            IF NoControllerFunction(i)
            THEN /\ Done(i)
                 /\ inv[i].caught.class = "EnforcerRouterError"
                 /\ inv[i].caught.rcode = "CONTROLLER_NOT_FOUND"
                 /\ inv[i].called = <<>>
            ELSE inv[i].called =
                    << <<inv[i].registered.xController, inv[i].registered.xOperation>> >>

C10_Witness ==
    \E i \in Slots :
        /\ Routed(i) /\ Done(i)
        /\ inv[i].registered.xController \in DOMAIN controllers
        /\ inv[i].registered.xOperation # ""
        /\ inv[i].registered.xOperation \notin controllers[inv[i].registered.xController]
        /\ inv[i].caught.rcode = "CONTROLLER_NOT_FOUND"
        /\ inv[i].called = <<>>

\* C11: mergeMultiValueParameters(singles, multis) has every key of both
\* arguments, and a key of both has the value it has in multis; the header
\* view and the query view that initialize builds from an event's
\* single-valued and multi-valued maps have the same keys and the same
\* precedence.
C11_MultiValuedWins ==
    LET singles == OrEmpty(params.singles)
        multis == OrEmpty(params.multis)
        keys == Keys(singles) \cup Keys(multis)
    IN  /\ params.op = "merge" =>
            /\ Keys(params.merged) = keys
            /\ \A k \in Keys(multis) : Get(params.merged, k) = Get(multis, k)
            /\ \A k \in Keys(singles) \ Keys(multis) :
                    Get(params.merged, k) = Get(singles, k)
        /\ params.op = "views" =>
            /\ Keys(params.headers) = keys
            /\ Keys(params.view.query) = keys
            /\ Keys(params.view.qsMap) = keys
            /\ \A k \in Keys(multis) :
                /\ Get(params.headers, k) = Get(multis, k)
                /\ Get(params.view.query, k) =
                        (IF Get(multis, k).kind = "array"
                         THEN Get(multis, k) ELSE ArrayValue(<<"">>))
                /\ Get(params.view.qsMap, k) = Get(params.view.query, k)
            /\ \A k \in Keys(singles) \ Keys(multis) :
                /\ Get(params.headers, k) = Get(singles, k)
                /\ Get(params.view.query, k) =
                        (IF Get(singles, k).kind = "string"
                         THEN Get(singles, k) ELSE StringValue(""))
                /\ Get(params.view.qsMap, k) =
                        ArrayValue(Get(params.view.query, k).items)

C11_Witness ==
    /\ params.op = "views"
    /\ Get(params.singles, "a") = StringValue("1")
    /\ Get(params.multis, "a") = ArrayValue(<<"2", "1">>)
    /\ Get(params.singles, "b") = StringValue("2")
    /\ "b" \notin Keys(params.multis)
    /\ Get(params.headers, "a") = ArrayValue(<<"2", "1">>)
    /\ Get(params.view.query, "a") = ArrayValue(<<"2", "1">>)
    /\ Get(params.headers, "b") = StringValue("2")

\* the keys of a map whose value is a string or an array
DefinedKeys(obj) == {k \in Keys(obj) : Get(obj, k).kind # "undefined"}

\* C12 as stated: splitMultiValueParameters(m) places every key of m in
\* exactly one of its two outputs, and mergeMultiValueParameters of the
\* outputs has the keys of m, each with the value (scalar or sequence, in
\* order) it has in m; an empty map gives an empty map.
C12_SplitMergeRoundTrip ==
    params.op = "split" =>
        /\ \A k \in Keys(params.data) :
                (k \in Keys(params.split.singles)) # (k \in Keys(params.split.multis))
        /\ Keys(params.again) = Keys(params.data)
        /\ \A k \in Keys(params.data) : Get(params.again, k) = Get(params.data, k)
        /\ params.data = <<>> => params.again = <<>>

\* C12 as amended: splitMultiValueParameters(m) places every key of m whose
\* value is a string in singles only and every key whose value is an array
\* in multis only, and drops the keys whose value is undefined;
\* mergeMultiValueParameters of the outputs has exactly the keys of m
\* whose value is defined, each with the value it has in m; an empty map
\* gives an empty map.
C12_SplitMergeRoundTripDefined ==
    params.op = "split" =>
        /\ \A k \in Keys(params.data) :
            /\ k \in Keys(params.split.singles) <=> Get(params.data, k).kind = "string"
            /\ k \in Keys(params.split.multis) <=> Get(params.data, k).kind = "array"
        /\ Keys(params.split.singles) \cup Keys(params.split.multis) \subseteq Keys(params.data)
        /\ Keys(params.again) = DefinedKeys(params.data)
        /\ \A k \in DefinedKeys(params.data) :
                Get(params.again, k) = Get(params.data, k)
        /\ params.data = <<>> => params.again = <<>>

C12_Witness ==
    /\ params.op = "split"
    /\ Get(params.data, "a") = ArrayValue(<<"2">>)
    /\ Get(params.data, "b") = UndefinedValue
    /\ "b" \in Keys(params.data)
    /\ Keys(params.split.multis) = {"a"}
    /\ params.split.singles = <<>>
    /\ Keys(params.again) = {"a"}
    /\ Get(params.again, "a") = ArrayValue(<<"2">>)

\* the content type initialize reads from the event
EventContentType(event) == getContentTypeFromHeaders(event.headers)

\* the body of the event goes through no codec: it has no content-type
\* header, or a content type without a built-in codec and no bodyParser is
\* configured
NoCodec(event) ==
    \/ EventContentType(event) = Undefined
    \/ /\ EventContentType(event) \notin {"application/json", "application/x-www-form-urlencoded"}
       /\ given.bodyParser = Undefined

\* C13 as stated: when an event has a body that goes through no codec, no
\* error is raised by initialize and the engine's request() is called with
\* the raw body string as its body.
C13_RawBodyPassesThrough ==
    \A i \in Slots :
        (inv[i].pc \notin {"idle", "awaitOpenapi"} /\ inv[i].event.body.present
            /\ NoCodec(inv[i].event)) =>
            /\ inv[i].init.type = "return"
            /\ inv[i].engineBodies =
                    <<[type |-> "string", val |-> inv[i].event.body.raw]>>

\* the engine's request() was called without a body although the event has
\* one and its content type has no codec
C13_RawBodyDropped ==
    \E i \in Slots :
        /\ Done(i)
        /\ inv[i].event.body = RawBody("hello")
        /\ EventContentType(inv[i].event) = "text/plain"
        /\ given.bodyParser = Undefined
        /\ inv[i].init.type = "return"
        /\ inv[i].engineBodies = <<BodyUnset>>

Cookies(i) == SetCookie(inv[i].result)

\* C15: each res.cookie(name, value, options) call appends exactly one
\* entry to the set-cookie list of the collector and leaves the entries it
\* had unchanged and in place, also when the name was set before.
C15_CookieAppendsOne ==
    \A i \in Slots :
        inv[i].lastCall.op = "cookie" =>
            /\ Len(Cookies(i)) = Len(inv[i].before) + 1
            /\ SubSeq(Cookies(i), 1, Len(inv[i].before)) = inv[i].before
            /\ Cookies(i)[Len(Cookies(i))] =
                    CookieString(inv[i].lastCall.name, inv[i].lastCall.value,
                                 inv[i].lastCall.options)
            /\ StartsWith(Cookies(i)[Len(Cookies(i))], inv[i].lastCall.name)

C15_Witness ==
    \E i \in Slots :
        /\ inv[i].lastCall.op = "cookie"
        /\ inv[i].cookieNames = <<"a", "b", "a">>
        /\ Len(Cookies(i)) = 3
        /\ Cookies(i)[1] = "a:1; path=/"
        /\ Cookies(i)[2] = "b:a%20b; path=/app; max-age=2; secure"
        /\ Cookies(i)[3] = "a:a%20b; path=/"

\* the position in the list before the last call of the first entry that
\* cookie(name, ...) appended, 0 when there is none
FirstAppended(i, name) ==
    LET found == {k \in 1..Len(inv[i].beforeNames) : inv[i].beforeNames[k] = name}
    IN  IF found = {} THEN 0
        ELSE CHOOSE k \in found : \A j \in found : k <= j

\* C16 as stated: res.clearCookie(name) removes exactly one entry of the
\* set-cookie list, the first one that cookie(name, ...) appended, and
\* leaves the others unchanged; when no cookie of that name was appended
\* the list is unchanged.
C16_ClearCookieRemovesFirst ==
    \A i \in Slots :
        inv[i].lastCall.op = "clearCookie" =>
            Cookies(i) =
                IF FirstAppended(i, inv[i].lastCall.name) = 0
                THEN inv[i].before
                ELSE Splice(inv[i].before, FirstAppended(i, inv[i].lastCall.name))

\* cookie('a', '1'), cookie('b', '1'), clearCookie('a') leaves both entries
C16_ClearCookieRemovesNothing ==
    \E i \in Slots :
        /\ inv[i].lastCall = [NoCall EXCEPT !.op = "clearCookie", !.name = "a"]
        /\ inv[i].beforeNames = <<"a", "b">>
        /\ Cookies(i) = <<"a:1; path=/", "b:1; path=/">>

\* C17: start() on a started server and stop() on a server that is not
\* started resolve without error and leave the listener as it was, and
\* while the server is started the port getter returns the port the
\* listener is bound to.
C17_StartStopIdempotent ==
    /\ (server.last.op = "start" /\ server.last.before.listener # "null") =>
            /\ server.last.outcome = "resolved"
            /\ server.last.after = server.last.before
    /\ (server.last.op = "stop" /\ server.last.before.listener = "null") =>
            /\ server.last.outcome = "resolved"
            /\ server.last.after = server.last.before
    /\ server.listener # "null" =>
            /\ server.listening
            /\ server.bound # 0
            /\ port(server) = server.bound
            /\ server.port # 0 => server.bound = server.port

C17_Witness ==
    /\ server.port = 0
    /\ server.last.op = "start"
    /\ server.last.before = [listener |-> "server", listening |-> TRUE, bound |-> 49153]
    /\ server.last.outcome = "resolved"
    /\ server.calls = 3
    /\ port(server) = 49153

RenderedSpecifically(i) ==
    /\ inv[i].caught.class = "EnforcerStatusError"
    /\ inv[i].out.value.statusCode = inv[i].caught.code
    /\ inv[i].out.value.body = StatusErrorToString(inv[i].caught)

\* the failure that each handle* option names
BadRequest(i) == EngineRejected(i) /\ inv[i].engine.statusCode = 400
NotFound(i) == EngineRejected(i) /\ inv[i].engine.statusCode = 404
MethodNotAllowed(i) == EngineRejected(i) /\ inv[i].engine.statusCode = 405

\* C19 as stated: handleBadRequest, handleBadResponse, handleNotFound and
\* handleMethodNotAllowed are true when not given, and when one of them is
\* false the adapter does not render the corresponding failure with its
\* specific status code and message.
C19_HandleOptionsControlRendering ==
    /\ given.handleBadRequest = Undefined => options.handleBadRequest = "true"
    /\ given.handleBadResponse = Undefined => options.handleBadResponse = "true"
    /\ given.handleNotFound = Undefined => options.handleNotFound = "true"
    /\ given.handleMethodNotAllowed = Undefined => options.handleMethodNotAllowed = "true"
    /\ \A i \in Slots :
        Done(i) =>
            /\ (options.handleBadRequest = "false" /\ BadRequest(i)) => ~RenderedSpecifically(i)
            /\ (options.handleBadResponse = "false" /\ ResponseInvalid(i)) => ~RenderedSpecifically(i)
            /\ (options.handleNotFound = "false" /\ NotFound(i)) => ~RenderedSpecifically(i)
            /\ (options.handleMethodNotAllowed = "false" /\ MethodNotAllowed(i)) =>
                    ~RenderedSpecifically(i)

\* with handleNotFound false, an unknown path is still answered by the
\* adapter with 404 and the engine's message
C19_NotFoundStillRendered ==
    \E i \in Slots :
        /\ Done(i)
        /\ given.handleNotFound = "false"
        /\ options.handleNotFound = "false"
        /\ inv[i].event.path = "/foo"
        /\ inv[i].out.value.statusCode = 404
        /\ inv[i].out.value.body = "StatusError 404: Path not found"

\* C20 as stated: after a route() invocation whose walk found a controller
\* name, the registration of the operation is in operationsMap and is
\* marked processed (so that later invocations for the operation skip the
\* block that names it and walks its chain).
C20_ProcessedAfterWalk ==
    \A i \in Slots :
        (Routed(i) /\ Carriers(i) # {}) =>
            /\ inv[i].req.operation \in DOMAIN operationsMap
            /\ operationsMap[inv[i].req.operation].processed

\* the walk found the controller of GET /accounts/{accountId} and the
\* controller function ran, and the registration is not marked processed
C20_WalkedButNotProcessed ==
    \E i \in Slots :
        /\ Routed(i) /\ Done(i)
        /\ inv[i].req.operation = "op1"
        /\ inv[i].called = << <<"accounts", "getAccount">> >>
        /\ operationsMap["op1"].xController = "accounts"
        /\ ~operationsMap["op1"].processed

\* C21: a registration whose walk finds no controller name is never marked
\* processed and keeps an empty controller name, and every invocation for
\* its operation, also a later one, runs the resolution again.
C21_UnresolvedIsRetried ==
    \A i \in Slots :
        (Routed(i) /\ Carriers(i) = {}) =>
            /\ inv[i].walked
            /\ inv[i].registered.xController = ""
            /\ inv[i].req.operation \in DOMAIN operationsMap
            /\ ~operationsMap[inv[i].req.operation].processed
            /\ operationsMap[inv[i].req.operation].xController = ""

C21_Witness ==
    \E i \in Slots :
        /\ Routed(i) /\ Done(i)
        /\ Carriers(i) = {}
        /\ openapi.doc.rootParent = "noResult"
        /\ ~inv[i].fresh
        /\ inv[i].walked
        /\ inv[i].caught.rcode = "NO_ROUTE_MAPPING"

\* what a single invocation on a new instance resolves for an operation
Sequential(operation) ==
    Register([o \in {} |-> NewRegistration], openapi.doc, operation).registered

\* C23: invocations of route() that interleave on one instance create at
\* most one registration object for an operation, and each of them resolves
\* the controller name and the operation name that a single invocation on a
\* new instance resolves; the table holds that registration.
C23_OneRegistrationSameNames ==
    \A i \in Slots :
        Routed(i) =>
            LET o == inv[i].req.operation
            IN  /\ o \in DOMAIN operationsMap
                /\ operationsMap[o] = Sequential(o)
                /\ inv[i].registered.xController = Sequential(o).xController
                /\ inv[i].registered.xOperation = Sequential(o).xOperation
                /\ \A j \in Slots \ {i} :
                        (Routed(j) /\ inv[j].req.operation = o) =>
                            ~(inv[i].fresh /\ inv[j].fresh)

\* two invocations for the same operation both await their controller
\* function; the first created the registration, both ran the walk
C23_Witness ==
    /\ inv[1].pc = "handler" /\ inv[2].pc = "handler"
    /\ inv[1].req.operation = "op1" /\ inv[2].req.operation = "op1"
    /\ inv[1].fresh /\ ~inv[2].fresh
    /\ inv[1].walked /\ inv[2].walked
    /\ inv[1].called = <<<<"messages", "getAccount">>>>
    /\ inv[2].called = <<<<"messages", "getAccount">>>>

\* the status an invocation's handler left: the last code it set, else 200
OwnStatus(i) == IF inv[i].statusSet = 0 THEN 200 ELSE inv[i].statusSet

\* C24: the Response Collector of an invocation holds what the handler of
\* that invocation set and nothing else, starting from status 200, no
\* headers and an unset body, however the invocations interleave; a valid
\* result is built from that collector.
C24_OwnCollector ==
    \A i \in Slots :
        /\ (inv[i].pc = "handler" \/ (Done(i) /\ inv[i].returned)) =>
                /\ inv[i].result.statusCode = OwnStatus(i)
                /\ inv[i].result.headers = inv[i].headersSet
                /\ inv[i].result.body = inv[i].sent
                /\ Len(SetCookie(inv[i].result)) = Len(inv[i].cookieNames)
        /\ (Done(i) /\ ResponseValid(i)) =>
                /\ inv[i].out.value.statusCode = OwnStatus(i)
                /\ inv[i].out.value.headers = EngineResponseHeaders(inv[i].headersSet)
                /\ inv[i].out.value.body = ResultBody(inv[i].sent)
                /\ Len(SetCookie(inv[i].out.value)) = Len(inv[i].cookieNames)

\* while the handler of one invocation has set a status, a header, a cookie
\* and a body and is still running, another invocation that set nothing
\* has resolved with the untouched collector
C24_Witness ==
    /\ inv[1].pc = "handler"
    /\ inv[1].statusSet = 404
    /\ inv[1].sent = [type |-> "string", val |-> "hello"]
    /\ inv[1].cookieNames = <<"a">>
    /\ Done(2) /\ ResponseValid(2)
    /\ inv[2].trace = <<"request", "handler", "response">>
    /\ inv[2].out.value.statusCode = 200
    /\ inv[2].out.value.headers = NoHeaders
    /\ inv[2].out.value.multiValueHeaders = NoHeaders
    /\ inv[2].out.value.body = ""

\* key=value for each value of a key, the value percent-encoded
KeyValuePairs(entry) ==
    [n \in 1..Len(entry.value.items) |->
        EncodeURIComponent(entry.key) \o "=" \o EncodeURIComponent(entry.value.items[n])]

\* the canonical query string of a map of query parameters
CanonicalQueryString(qsMap) ==
    IF qsMap = <<>> THEN ""
    ELSE "?" \o Join([k \in 1..Len(qsMap) |-> Join(KeyValuePairs(qsMap[k]), "&")], "&")

\* C25: the path given to the engine is the event path followed by the
\* canonical query string ?key=value&... of the merged query parameters,
\* one key=value pair per value, and by nothing when the event has no query
\* parameters.
C25_CanonicalQueryString ==
    params.op = "views" =>
        params.path = "/accounts/123" \o CanonicalQueryString(params.view.qsMap)

\* what the code appends for {a: '1'} and {b: ['1', '2']}: the values alone,
\* without their keys
C25_Witness ==
    /\ params.op = "views"
    /\ params.singles = <<[key |-> "a", value |-> StringValue("1")]>>
    /\ params.multis = <<[key |-> "b", value |-> ArrayValue(<<"1", "2">>)]>>
    /\ params.path = "/accounts/123?1&1&2"

\* the content type of the merged headers of an event
MergedContentType(event) ==
    getContentTypeFromHeaders(
        mergeMultiValueParameters(event.headers, event.multiValueHeaders))

\* C26 as stated: the decoding of the body is selected by the content type
\* of the merged headers; when that is application/json and the body is
\* valid JSON, also when the header is given in multiValueHeaders only, the
\* engine's request() is called with the decoded body.
C26_MergedContentTypeSelects ==
    \A i \in Slots :
        (inv[i].pc \notin {"idle", "awaitOpenapi"} /\ inv[i].event.body.present
            /\ MergedContentType(inv[i].event) = "application/json"
            /\ JSONParse(inv[i].event.body.raw).ok) =>
            inv[i].engineBodies =
                <<[type |-> "object", val |-> JSONParse(inv[i].event.body.raw).value]>>

\* the content type application/json is given in multiValueHeaders only
\* and the body is valid JSON: the engine's request() was called without a
\* body
C26_MultiValueContentTypeIgnored ==
    \E i \in Slots :
        /\ Done(i)
        /\ inv[i].event.headers = <<>>
        /\ MergedContentType(inv[i].event) = "application/json"
        /\ inv[i].event.body = RawBody("{\"name\":\"Bob\"}")
        /\ given.bodyParser = Undefined
        /\ inv[i].init.type = "return"
        /\ inv[i].engineBodies = <<BodyUnset>>

\* C27 as stated: on successful outbound validation the statusCode and the
\* single-valued headers of the result are exactly those of the Response
\* Collector, and its multi-valued headers are the collector's.
C27_ResultFromCollector ==
    \A i \in Slots :
        (Done(i) /\ ResponseValid(i)) =>
            /\ inv[i].out.value.statusCode = inv[i].result.statusCode
            /\ inv[i].out.value.headers = inv[i].result.headers
            /\ inv[i].out.value.multiValueHeaders = inv[i].result.multiValueHeaders

\* the handler set the location header only, the response is valid, and
\* the result carries a content-type header that the collector does not
\* hold
C27_HeadersFromEngine ==
    \E i \in Slots :
        /\ Done(i) /\ ResponseValid(i)
        /\ inv[i].headersSet = [h \in {"location"} |-> "/accounts/1"]
        /\ inv[i].result.headers = inv[i].headersSet
        /\ DOMAIN inv[i].out.value.headers = {"location", "content-type"}
        /\ inv[i].out.value.statusCode = inv[i].result.statusCode
        /\ inv[i].out.value.multiValueHeaders = inv[i].result.multiValueHeaders

\* C28: on successful outbound validation the body of the result is '' when
\* the handler never gave send an argument, the JSON string of the object it
\* sent last, or the string it sent last, unchanged; send() with no argument
\* leaves the collector's body as it was.
C28_ResultBody ==
    \A i \in Slots :
        /\ (inv[i].pc = "handler" \/ (Done(i) /\ inv[i].returned)) =>
                inv[i].result.body = inv[i].sent
        /\ (Done(i) /\ ResponseValid(i)) =>
                /\ inv[i].sent.type = "undefined" => inv[i].out.value.body = ""
                /\ inv[i].sent.type = "object" =>
                        inv[i].out.value.body = JSONStringify(inv[i].sent.val)
                /\ inv[i].sent.type = "string" => inv[i].out.value.body = inv[i].sent.val

\* the handler sent an object and then called send() with no argument; the
\* valid result carries the JSON string of the object
C28_Witness ==
    \E i \in Slots :
        /\ Done(i) /\ ResponseValid(i)
        /\ inv[i].lastCall.op = "send"
        /\ inv[i].sent = [type |-> "object", val |-> "{id:123,name:'Name'}"]
        /\ inv[i].out.value.body = "{\"id\":123,\"name\":\"Name\"}"

\* the content type a TestRequest declares
DeclaredContentType(req) == getContentTypeFromHeaders(req.headers)

\* C29 as stated: the test invoker encodes an object body by the declared
\* content type: as JSON for application/json and when none is given (the
\* content type then becomes application/json), form-urlencoded for
\* application/x-www-form-urlencoded, and it fails for any other content
\* type.
C29_ObjectBodyEncodedOrFails ==
    (params.op = "test" /\ params.body.type = "object") =>
        LET contentType == DeclaredContentType(params)
        IN  /\ contentType = Undefined =>
                    /\ ~params.threw
                    /\ getContentTypeFromHeaders(params.event.headers) = "application/json"
                    /\ params.event.body =
                            [type |-> "string", val |-> JSONStringify(params.body.val)]
            /\ contentType = "application/json" =>
                    /\ ~params.threw
                    /\ params.event.body =
                            [type |-> "string", val |-> JSONStringify(params.body.val)]
            /\ contentType = "application/x-www-form-urlencoded" =>
                    /\ ~params.threw
                    /\ params.event.body =
                            [type |-> "string", val |-> QuerystringStringify(params.body.val)]
            /\ contentType \notin {Undefined, "application/json",
                                    "application/x-www-form-urlencoded"} =>
                    params.threw

\* an object body declared as text/plain: the invoker did not fail and the
\* body of the event is the object itself
C29_ObjectBodyLeftUnencoded ==
    /\ params.op = "test"
    /\ params.headers = <<[key |-> "content-type", value |-> StringValue("text/plain")]>>
    /\ params.body = [type |-> "object", val |-> "{id:123,name:'Name'}"]
    /\ ~params.threw
    /\ params.event.body = params.body
    /\ params.event.headers = params.headers

\* the calls of an invocation in the order the code makes them
CallOrder == <<"request", "handler", "response">>

\* the business function was called and did not return normally
HandlerThrew(i) == Done(i) /\ inv[i].called # <<>> /\ ~inv[i].returned

\* route() called no business function for a request the engine accepted
RouteFailed(i) == Done(i) /\ Routed(i) /\ inv[i].called = <<>>

\* C30: in every invocation the engine's request(), the business handler
\* and the outbound validation are called in that order, each at most once;
\* the validation is called exactly once when the handler returned
\* normally, and never when the request was rejected, route resolution
\* failed or the handler threw.
C30_RequestHandlerValidation ==
    \A i \in Slots :
        /\ Len(inv[i].trace) <= Len(CallOrder)
        /\ inv[i].trace = SubSeq(CallOrder, 1, Len(inv[i].trace))
        /\ Len(inv[i].validations) = (IF inv[i].returned THEN 1 ELSE 0)
        /\ inv[i].returned <=> inv[i].trace = CallOrder
        /\ inv[i].returned => Done(i) /\ Len(inv[i].called) = 1
        /\ (Done(i) /\ (EngineRejected(i) \/ RouteFailed(i) \/ HandlerThrew(i)
                          \/ inv[i].init.type = "throw")) =>
                /\ inv[i].validations = <<>>
                /\ "response" \notin {inv[i].trace[k] : k \in 1..Len(inv[i].trace)}

\* a handler that returned after the engine accepted the request, and whose
\* response the engine validated once
C30_Witness ==
    \E i \in Slots :
        /\ Done(i) /\ inv[i].returned
        /\ inv[i].trace = CallOrder
        /\ Len(inv[i].engineCalls) = 1
        /\ Len(inv[i].called) = 1
        /\ Len(inv[i].validations) = 1

=============================================================================
